---------------------------- MODULE Spec2Model ----------------------------
(***************************************************************************)
(* A model of the slide renderer of Multimidia_Web (renderer.js, kept in   *)
(* src/unnamed/part_000, and the earlier renderer kept at the end of       *)
(* src/js/main.js): renderSlide and the element dispatcher, the video      *)
(* activation state machine with the shared YouTube IFrame API promise,    *)
(* the info-box anchor selection and the clamped positioning.              *)
(*                                                                         *)
(* Strings that the code parses (video URLs) are sequences of one-letter   *)
(* strings, so that parsing is computed and not assumed.                   *)
(***************************************************************************)
EXTENDS Integers, Sequences, FiniteSets, TLC

VARIABLES
    course,             \* the slides of data.json, flattened, in order
    variant,            \* the renderer source loaded: "renderer" | "main"
    renderCount,        \* number of renderSlide calls so far
    slideAtual,         \* index in course of the slide rendered last (0: none)
    container,          \* children of #slide-elements-container (node trees)
    titleEl,            \* #slide-title textContent
    subtitleEl,         \* #slide-subtitle textContent
    audioPlayer,        \* #audio-player: [src, display]
    videos,             \* per placeholder built by criarVideo: its closure state
    ytApi,              \* window.YT, window._ytApiReadyPromise, the script tags
    waiters,            \* click handlers suspended at "await ensureYouTubeAPI()"
    layout,             \* geometry read by applyPosition
    buttonStyle,        \* style.left / style.top of an info-box trigger
    nav,                \* main.js: slideAtualIndex, the two buttons, the menu
    triggers,           \* per info-box trigger: what its closure still holds
    sec,                \* --sec-h, the recalculations pending, the media loaded
    modal               \* the modal: hidden or not, its title, its content

vars == <<course, variant, renderCount, slideAtual, container, titleEl,
          subtitleEl, audioPlayer, videos, ytApi, waiters, layout, buttonStyle,
          nav, triggers, sec, modal>>

---------------------------------------------------------------------------
(* Bounds of the model *)

MaxRenders == 2
MaxClicks == 2
MaxElems == 2
MaxOff == 3
MaxDim == 2
MaxId == 2
MaxLen == 4
MaxRows == 3

---------------------------------------------------------------------------
(* Strings as sequences of letters *)

Max(a, b) == IF a >= b THEN a ELSE b
Min(a, b) == IF a <= b THEN a ELSE b

\* a clamp that forgets the lower bound
ClampNoFloor(v, max) == Min(v, max)

\* Math.max(0, Math.min(v, max))
Clamp(v, max) == Max(0, Min(v, max))

\* String.prototype.toLowerCase on one letter (the letters the inputs use)
LowerChar(c) ==
    CASE c = "M" -> "m"
      [] c = "P" -> "p"
      [] c = "O" -> "o"
      [] c = "G" -> "g"
      [] c = "V" -> "v"
      [] OTHER -> c

ToLower(s) == [i \in 1..Len(s) |-> LowerChar(s[i])]

StartsWithAt(s, pat, i) ==
    /\ i >= 1
    /\ i + Len(pat) - 1 <= Len(s)
    /\ \A k \in 1..Len(pat) : s[i + k - 1] = pat[k]

EndsWith(s, pat) == StartsWithAt(s, pat, Len(s) - Len(pat) + 1)

\* String.prototype.indexOf, 1-based; 0 when pat does not occur at or after from
IndexOfFrom(s, pat, from) ==
    LET hits == {i \in from..(Len(s) - Len(pat) + 1) : StartsWithAt(s, pat, i)}
    IN  IF hits = {} THEN 0 ELSE CHOOSE i \in hits : \A j \in hits : i <= j

IndexOf(s, pat) == IndexOfFrom(s, pat, 1)

\* String.prototype.includes
Includes(s, pat) == IndexOf(s, pat) # 0

\* index of the first letter of s at or after from that is in set; Len(s)+1 if none
FirstOf(s, set, from) ==
    LET hits == {i \in from..Len(s) : s[i] \in set}
    IN  IF hits = {} THEN Len(s) + 1 ELSE CHOOSE i \in hits : \A j \in hits : i <= j

\* String.prototype.slice(from) with a 0-based from >= 0
SliceFrom(s, from) == SubSeq(s, from + 1, Len(s))

\* the JavaScript value null where a string is expected
Null == <<"null">>

\* JavaScript truthiness of a string-or-null value
Truthy(v) == v # Null /\ v # <<>>


---------------------------------------------------------------------------
(* new URL(url), as far as the renderer reads it: hostname, pathname, search *)

\* the letters of the literals the code compares with
YoutuBe == <<"y","o","u","t","u",".","b","e">>
YoutubeCom == <<"y","o","u","t","u","b","e",".","c","o","m">>
EmbedSlash == <<"/","e","m","b","e","d","/">>
MediaExtensions ==
    { <<".","m","p","4">>, <<".","w","e","b","m">>,
      <<".","o","g","v">>, <<".","o","g","g">> }

\* new URL(s) with no base: it throws (ok is FALSE) for a string that has
\* no "scheme://host"; otherwise hostname (lower-cased), pathname ("/" when
\* empty) and the query (search without its "?") are as the parser splits them

\* the parts once the ends of host and path are known
URLParts(s, hostStart, hostEnd, pathEnd) ==
    [ok |-> TRUE,
     hostname |-> ToLower(SubSeq(s, hostStart, hostEnd - 1)),
     pathname |-> IF hostEnd = pathEnd THEN <<"/">>
                  ELSE SubSeq(s, hostEnd, pathEnd - 1),
     query |-> SubSeq(s, pathEnd + 1, FirstOf(s, {"#"}, pathEnd) - 1)]

\* the host runs from hostStart to hostEnd (exclusive); it may not be empty
URLFromHost(s, hostStart, hostEnd) ==
    IF hostEnd = hostStart THEN [ok |-> FALSE]
    ELSE URLParts(s, hostStart, hostEnd, FirstOf(s, {"?", "#"}, hostEnd))

\* c is the index of the first ":" (0 when there is none)
URLFromScheme(s, c) ==
    IF \/ c <= 1
       \/ \E i \in 1..(c - 1) : s[i] \in {"/", "?", "#", "."}
       \/ ~StartsWithAt(s, <<"/","/">>, c + 1)
    THEN [ok |-> FALSE]
    ELSE URLFromHost(s, c + 3, FirstOf(s, {"/", "?", "#"}, c + 3))

NewURL(s) == URLFromScheme(s, IndexOf(s, <<":">>))

\* the pair of a query that ends before index amp
PairValue(pair, eq) == SubSeq(pair, eq + 1, Len(pair))
PairName(pair, eq) == SubSeq(pair, 1, eq - 1)

\* URLSearchParams.get: the value of the first pair named name, or null
RECURSIVE SearchParamsGet(_, _), SearchParamsFrom(_, _, _, _)
SearchParamsFrom(q, name, amp, pair) ==
    IF pair # <<>> /\ PairName(pair, FirstOf(pair, {"="}, 1)) = name
    THEN PairValue(pair, FirstOf(pair, {"="}, 1))
    ELSE SearchParamsGet(SubSeq(q, amp + 1, Len(q)), name)

SearchParamsGet(q, name) ==
    IF q = <<>> THEN Null
    ELSE SearchParamsFrom(q, name, FirstOf(q, {"&"}, 1),
                          SubSeq(q, 1, FirstOf(q, {"&"}, 1) - 1))

\* s.split(sep)[0] for a string sep
BeforeFirst(s, sep, i) == IF i = 0 THEN s ELSE SubSeq(s, 1, i - 1)

\* s.split(/[/?#]/)[0]
BeforeSeparator(s) == SubSeq(s, 1, FirstOf(s, {"/", "?", "#"}, 1) - 1)

\* rest is what follows the first '/embed/' of the pathname
EmbedPiece(rest) == BeforeSeparator(BeforeFirst(rest, EmbedSlash, IndexOf(rest, EmbedSlash)))

\* pathname.split('/embed/')[1]?.split(/[/?#]/)[0] || ''
AfterEmbed(p) == EmbedPiece(SubSeq(p, IndexOf(p, EmbedSlash) + Len(EmbedSlash), Len(p)))

\* id || null
OrNull(id) == IF Truthy(id) THEN id ELSE Null

\* the branch of www.youtube.com: v is searchParams.get('v')
WatchOrEmbedID(pathname, v) ==
    IF ~Truthy(v) /\ Includes(pathname, EmbedSlash) THEN AfterEmbed(pathname)
    ELSE v

\* the body of the try block of extrairVideoIDdoYouTube
VideoIDFromURL(urlObj) ==
    IF ~urlObj.ok THEN Null
    ELSE IF urlObj.hostname = YoutuBe THEN OrNull(SliceFrom(urlObj.pathname, 1))
    ELSE IF Includes(urlObj.hostname, YoutubeCom)
         THEN OrNull(WatchOrEmbedID(urlObj.pathname,
                                    SearchParamsGet(urlObj.query, <<"v">>)))
         ELSE Null

\* extrairVideoIDdoYouTube of renderer.js
extrairVideoIDdoYouTube(url) ==
    IF ~Truthy(url) THEN Null ELSE VideoIDFromURL(NewURL(url))

\* the body of the try block of the earlier extrairVideoIDdoYouTube
VideoIDFromURLMain(urlObj) ==
    IF ~urlObj.ok THEN Null
    ELSE IF urlObj.hostname = YoutuBe THEN SliceFrom(urlObj.pathname, 1)
    ELSE IF Includes(urlObj.hostname, YoutubeCom)
         THEN SearchParamsGet(urlObj.query, <<"v">>)
         ELSE <<>>

\* extrairVideoIDdoYouTube of the earlier renderer (end of main.js)
extrairVideoIDdoYouTubeMain(url) ==
    IF ~Truthy(url) THEN Null ELSE VideoIDFromURLMain(NewURL(url))

\* the body of the try block of isYouTubeUrl
IsYouTubeHost(u) ==
    IF ~u.ok THEN FALSE
    ELSE Includes(u.hostname, YoutubeCom) \/ u.hostname = YoutuBe

isYouTubeUrl(url) == IsYouTubeHost(NewURL(url))

\* an isDirectMediaUrl that compares without lower-casing
isDirectMediaUrlCaseSensitive(url) ==
    \E ext \in MediaExtensions : EndsWith(url, ext)

isDirectMediaUrl(url) ==
    \E ext \in MediaExtensions : EndsWith(ToLower(url), ext)

---------------------------------------------------------------------------
(* The video URLs of the courses: scheme, host, path, query and fragment *)

Https == <<"h","t","t","p","s",":","/","/">>

UrlSchemes == { Https, <<>> }

UrlHosts ==
    { YoutuBe,
      <<"w","w","w",".">> \o YoutubeCom,
      <<"c","d","n",".","t","v">> }

UrlPaths ==
    { <<>>,
      <<"/">>,
      <<"/","a","b","c">>,
      <<"/","w","a","t","c","h">>,
      EmbedSlash \o <<"q","w","e">>,
      EmbedSlash \o <<"q","w","e","/","x">>,
      EmbedSlash,
      <<"/","f",".","m","p","4">>,
      <<"/","f",".","O","G","V">> }

UrlQueries ==
    { <<>>,
      <<"?","v","=","x","y","z">>,
      <<"?","t","=","1","&","v","=","x","y","z">>,
      <<"?","v","=">>,
      <<"?","t","=","1">>,
      <<"?","v","=","k",".","w","e","b","m">> }

UrlFragments == { <<>>, <<"#","t">> }

VideoUrls ==
    { s \o h \o p \o q \o f :
        s \in UrlSchemes, h \in UrlHosts, p \in UrlPaths,
        q \in UrlQueries, f \in UrlFragments }
    \cup { <<>>, <<"f",".","m","p","4">>, <<"a","b","c">> }

---------------------------------------------------------------------------
(* Elements of data.json and the nodes built for them *)

\* a null entry of an elements array
NullElement == [isNull |-> TRUE]

HasField(obj, f) == f \in DOMAIN obj

\* obj.f || dflt
FieldOr(obj, f, dflt) == IF HasField(obj, f) THEN obj[f] ELSE dflt

\* !elementObject || !elementObject.type
IsInvalidElement(el) ==
    \/ HasField(el, "isNull")
    \/ ~HasField(el, "type")
    \/ el.type = ""

\* the value null where a node is expected
NoNode == [tag |-> "null"]
IsNode(n) == n.tag # "null"

\* no anchor element (anchorEl = null)
NoKey == <<>>

\* 'auto-prev' or 'container'
INFOBOX_ANCHOR_MODE == "auto-prev"

\* A node: key names the element it was built for (the render that built it
\* and the path of the element in slideObject.elements), cls is its class
\* list, anchor the anchorEl an info-box trigger closed over (the key of that
\* node, and in anchorCls its first class: a placeholder and the shell that
\* replaces it are built for one key and are two nodes), url the video
\* URL a placeholder closed over, player what a video shell holds.
\* text is the textContent of a leaf (li, th, td), start the start
\* attribute of a list (1 when it is not set).
Node(key, tag, cls, children) ==
    [key |-> key, tag |-> tag, cls |-> cls, children |-> children,
     anchor |-> NoKey, url |-> <<>>, player |-> "",
     anchorCls |-> "",
     style |-> [flexDirection |-> "", justifyContent |-> "", alignItems |-> ""],
     text |-> <<>>, start |-> 1]

criarTexto(el, key) ==
    Node(key, "p", <<"text-element", FieldOr(el, "styleName", "paragraph")>>, <<>>)

\* the letters that String.prototype.trim removes (those the inputs use)
WhiteSpace == { " ", "\n" }

\* String.prototype.trim
RECURSIVE TrimStart(_)
TrimStart(s) ==
    IF s # <<>> /\ Head(s) \in WhiteSpace THEN TrimStart(Tail(s)) ELSE s

RECURSIVE TrimEnd(_)
TrimEnd(s) ==
    IF s # <<>> /\ s[Len(s)] \in WhiteSpace THEN TrimEnd(SubSeq(s, 1, Len(s) - 1))
    ELSE s

Trim(s) == TrimEnd(TrimStart(s))

\* String.prototype.split('\n'): the pieces between the line feeds, the empty
\* ones included; cur is the piece that is being read
RECURSIVE Split(_, _)
Split(s, cur) ==
    IF s = <<>> THEN <<cur>>
    ELSE IF Head(s) = "\n" THEN <<cur>> \o Split(Tail(s), <<>>)
    ELSE Split(Tail(s), Append(cur, Head(s)))

\* a filter that drops only the lines of no letter at all
IsEmptyItem(item) == item = <<>>

\* the filter of criarLista: item.trim() !== ''
IsBlankItem(item) == Trim(item) = <<>>

\* (element.text || '').split('\n').filter(item => item.trim() !== '')
ListItems(text) == SelectSeq(Split(text, <<>>), LAMBDA item : ~IsBlankItem(item))

\* a list that takes its start attribute whatever its tag
ListStartAlways(el, isOrdered) ==
    IF FieldOr(el, "startIndex", 0) > 1 THEN el.startIndex ELSE 1

\* if (isOrdered && element.startIndex > 1) listElement.start = element.startIndex
ListStart(el, isOrdered) ==
    IF isOrdered /\ FieldOr(el, "startIndex", 0) > 1 THEN el.startIndex ELSE 1

\* one li of textContent itemText
ListItem(key, itemText) == [Node(key, "li", <<>>, <<>>) EXCEPT !.text = itemText]

criarLista(el, key) ==
    [Node(key, IF FieldOr(el, "styleName", "") = "numberList" THEN "ol" ELSE "ul",
          <<"list-element">>,
          [i \in 1..Len(ListItems(FieldOr(el, "text", <<>>))) |->
              ListItem(key, ListItems(FieldOr(el, "text", <<>>))[i])])
       EXCEPT !.start = ListStart(el, FieldOr(el, "styleName", "") = "numberList")]

criarImagem(el, key) ==
    IF FieldOr(el, "flash", FALSE)
    THEN Node(key, "div", <<"flash-warning">>, <<>>)
    ELSE Node(key, "figure", <<"image-element">>, <<>>)

\* a cell that never carries the marker of the feature column
CellPlain(key, tag, cellText, colIndex, el) ==
    [Node(key, tag, <<>>, <<>>) EXCEPT !.text = Trim(cellText)]

\* one th or td: the text trimmed, the class feature-column when colIndex ===
\* element.featureColumn (colIndex counts from 0)
Cell(key, tag, cellText, colIndex, el) ==
    [Node(key, tag,
          IF HasField(el, "featureColumn") /\ colIndex = el.featureColumn
          THEN <<"feature-column">> ELSE <<>>,
          <<>>)
       EXCEPT !.text = Trim(cellText)]

\* the cells of one row of content
Cells(key, tag, row, el) ==
    [c \in 1..Len(row) |-> Cell(key, tag, row[c], c - 1, el)]

\* a body row that carries the marker when its index among body rows is even
BodyRowEven(key, row, i, startIndex, el) ==
    Node(key, "tr",
         IF FieldOr(el, "alternateRowColor", FALSE) /\ (i - startIndex) % 2 = 0
         THEN <<"alternate-row">> ELSE <<>>,
         Cells(key, "td", row, el))

\* the tr of content[i] (i counts from 0): the class alternate-row when
\* element.alternateRowColor && (i - startIndex) % 2 !== 0
BodyRow(key, row, i, startIndex, el) ==
    Node(key, "tr",
         IF FieldOr(el, "alternateRowColor", FALSE) /\ (i - startIndex) % 2 # 0
         THEN <<"alternate-row">> ELSE <<>>,
         Cells(key, "td", row, el))

\* thead > tr > th*, built when isFirstRowHeader && content.length > 0
GridHead(key, content, el) ==
    IF FieldOr(el, "isFirstRowHeader", FALSE) /\ Len(content) > 0
    THEN << Node(key, "thead", <<>>,
                 << Node(key, "tr", <<>>, Cells(key, "th", content[1], el)) >>) >>
    ELSE <<>>

\* tbody > tr*, for content[startIndex] and the rows after it
GridBody(key, content, startIndex, el) ==
    Node(key, "tbody", <<>>,
         [r \in 1..(IF Len(content) > startIndex THEN Len(content) - startIndex ELSE 0) |->
             BodyRow(key, content[startIndex + r], startIndex + r - 1, startIndex, el)])

criarGrid(el, key) ==
    Node(key, "table", <<"grid-element">>,
         GridHead(key, FieldOr(el, "content", <<>>), el)
         \o << GridBody(key, FieldOr(el, "content", <<>>),
                        IF FieldOr(el, "isFirstRowHeader", FALSE) THEN 1 ELSE 0, el) >>)

criarEspacador(el, key) == Node(key, "span", <<"spacer">>, <<>>)

criarAppLauncher(el, key) == Node(key, "a", <<"app-launcher-button">>, <<>>)

\* classList.contains
HasClass(n, c) == \E i \in 1..Len(n.cls) : n.cls[i] = c

\* the extractor of the renderer that is loaded
VideoIdOf(url) ==
    IF variant = "main" THEN extrairVideoIDdoYouTubeMain(url)
    ELSE IF isYouTubeUrl(url) THEN extrairVideoIDdoYouTube(url) ELSE Null

\* criarVideo, the node it returns: the placeholder, whose click listener
\* closes over url; the earlier renderer returns null when no id is extracted
criarVideo(el, key) ==
    IF variant = "main" /\ ~Truthy(VideoIdOf(FieldOr(el, "video", <<>>))) THEN NoNode
    ELSE [Node(key, "div", <<"video-container-lazy">>, <<>>)
            EXCEPT !.url = FieldOr(el, "video", <<>>)]

\* the scan of criarGatilhoInfoBox over container.children, from the last
\* child backward, for a child that is not an info-box trigger
RECURSIVE AnchorScan(_, _)
AnchorScan(children, i) ==
    IF i = 0 THEN NoKey
    ELSE IF ~HasClass(children[i], "infobox-trigger") THEN children[i].key
    ELSE AnchorScan(children, i - 1)

\* the first class of the child that AnchorScan stops at
RECURSIVE AnchorClass(_, _)
AnchorClass(children, i) ==
    IF i = 0 THEN ""
    ELSE IF ~HasClass(children[i], "infobox-trigger") THEN children[i].cls[1]
    ELSE AnchorClass(children, i - 1)

\* criarGatilhoInfoBox, the node it returns; contChildren is
\* Array.from(container.children) at the time of the call
criarGatilhoInfoBox(el, key, contChildren) ==
    [Node(key, "button", <<"infobox-trigger">>, <<>>) EXCEPT
        !.anchor = IF variant = "main" \/ INFOBOX_ANCHOR_MODE # "auto-prev" THEN NoKey
                   ELSE AnchorScan(contChildren, Len(contChildren)),
        !.anchorCls = IF variant = "main" \/ INFOBOX_ANCHOR_MODE # "auto-prev" THEN ""
                      ELSE AnchorClass(contChildren, Len(contChildren))]

KnownTypes ==
    { "TextElement", "ListElement", "ImageElement", "VideoElement", "GridElement",
      "GroupElement", "InfoBoxElement", "SpacerElement", "AppLauncherElement" }

\* an insertion before the children that are there
AppendNodeFirst(children, node) ==
    IF IsNode(node) THEN <<node>> \o children ELSE children

\* if (node) parent.appendChild(node)
AppendNode(children, node) == IF IsNode(node) THEN Append(children, node) ELSE children

RECURSIVE criarElemento(_, _, _, _), criarGrupoChildren(_, _, _, _, _)

\* criarGrupo: the children are built and appended in order, null results skipped
criarGrupoChildren(els, i, gen, path, contChildren) ==
    IF i > Len(els) THEN <<>>
    ELSE AppendNode(<<>>, criarElemento(els[i], gen, path \o <<i>>, contChildren))
         \o criarGrupoChildren(els, i + 1, gen, path, contChildren)

\* hAlignMap[horizontalAlign] || 'flex-start' and vAlignMap[verticalAlign] ||
\* 'flex-start'
hAlignMap(a) ==
    CASE a = "left" -> "flex-start" [] a = "center" -> "center"
      [] a = "right" -> "flex-end" [] OTHER -> "flex-start"

vAlignMap(a) ==
    CASE a = "top" -> "flex-start" [] a = "middle" -> "center"
      [] a = "bottom" -> "flex-end" [] OTHER -> "flex-start"

GroupStyle(el) ==
    [flexDirection |-> IF FieldOr(el, "mode", "") = "horizontalGroup" THEN "row"
                       ELSE "column",
     justifyContent |-> hAlignMap(FieldOr(el, "horizontalAlign", "")),
     alignItems |-> vAlignMap(FieldOr(el, "verticalAlign", ""))]

criarGrupo(el, gen, path, contChildren) ==
    [Node(<<gen, path>>, "div", <<"group-container">>,
          IF HasField(el, "elements")
          THEN criarGrupoChildren(el.elements, 1, gen, path, contChildren)
          ELSE <<>>)
       EXCEPT !.style = GroupStyle(el)]

criarElemento(el, gen, path, contChildren) ==
    IF IsInvalidElement(el) THEN NoNode
    ELSE CASE el.type = "TextElement" -> criarTexto(el, <<gen, path>>)
           [] el.type = "ListElement" -> criarLista(el, <<gen, path>>)
           [] el.type = "ImageElement" -> criarImagem(el, <<gen, path>>)
           [] el.type = "VideoElement" -> criarVideo(el, <<gen, path>>)
           [] el.type = "GridElement" -> criarGrid(el, <<gen, path>>)
           [] el.type = "GroupElement" -> criarGrupo(el, gen, path, contChildren)
           [] el.type = "InfoBoxElement" ->
                  criarGatilhoInfoBox(el, <<gen, path>>, contChildren)
           [] el.type = "SpacerElement" -> criarEspacador(el, <<gen, path>>)
           [] el.type = "AppLauncherElement" -> criarAppLauncher(el, <<gen, path>>)
           [] OTHER -> NoNode

\* a forEach that stops at the first element for which no node is built
RECURSIVE RenderElementsAbort(_, _, _, _)
RenderElementsAbort(els, i, gen, acc) ==
    IF i > Len(els) THEN acc
    ELSE IF ~IsNode(criarElemento(els[i], gen, <<i>>, acc)) THEN acc
    ELSE RenderElementsAbort(els, i + 1, gen,
                             Append(acc, criarElemento(els[i], gen, <<i>>, acc)))

\* the forEach of renderSlide: acc is container.children so far
RECURSIVE RenderElements(_, _, _, _)
RenderElements(els, i, gen, acc) ==
    IF i > Len(els) THEN acc
    ELSE RenderElements(els, i + 1, gen,
                        AppendNode(acc, criarElemento(els[i], gen, <<i>>, acc)))

\* all nodes of a forest, as a set
RECURSIVE NodesOf(_)
NodesOf(nodes) ==
    UNION { {nodes[i]} \cup NodesOf(nodes[i].children) : i \in 1..Len(nodes) }

\* is the placeholder (or the shell) built for key in the forest
IsPlaceholder(n) == HasClass(n, "video-container-lazy")
IsShell(n) == HasClass(n, "video-shell")

\* is a node of class c built for key in the forest
RECURSIVE InForest(_, _, _)
InForest(nodes, key, c) ==
    \E i \in 1..Len(nodes) :
        \/ nodes[i].key = key /\ HasClass(nodes[i], c)
        \/ InForest(nodes[i].children, key, c)

PlaceholderIn(nodes, key) == InForest(nodes, key, "video-container-lazy")
ShellIn(nodes, key) == InForest(nodes, key, "video-shell")

---------------------------------------------------------------------------
(* The video placeholder and its activation *)

\* Times are counted in tenths of a second. A number that getCurrentTime
\* returns is finite or not (NaN, undefined, Infinity)
Num(v) == [finite |-> TRUE, v |-> v]
NaN == [finite |-> FALSE, v |-> 0]

\* String(n) for n >= 0
RECURSIVE Digits(_)
Digits(n) ==
    IF n < 10 THEN << <<"0", "1", "2", "3", "4", "5", "6", "7", "8", "9">>[n + 1] >>
    ELSE Digits(n \div 10) \o Digits(n % 10)

\* String(n).padStart(2, '0')
PadStart2(n) == IF n < 10 THEN <<"0">> \o Digits(n) ELSE Digits(n)

\* m:s of fmtTime, for whole seconds
fmtSeconds(secs) == PadStart2(secs \div 60) \o <<":">> \o PadStart2(secs % 60)

\* fmtTime(sec): sec = Math.max(0, Math.floor(sec || 0))
fmtTime(t) == fmtSeconds(Max(0, IF t.finite THEN t.v \div 10 ELSE 0))

\* `${fmtTime(ct)} / ${fmtTime(duration)}`
TimeText(ct, duration) == fmtTime(ct) \o <<" ", "/", " ">> \o fmtTime(Num(duration))

\* what the buttons show
PlayGlyph == "play"
PauseGlyph == "pause"
MutedGlyph == "muted"
SoundGlyph == "sound"

\* YT.PlayerState, each state by its name
UNSTARTED == "unstarted"
ENDED == "ended"
PLAYING == "playing"
PAUSED == "paused"
BUFFERING == "buffering"

PlayerStates == { UNSTARTED, ENDED, PLAYING, PAUSED, BUFFERING }

\* criarControlesUI: the play button, the mute button, the range input (its
\* value in tenths of a percent, min 0, max 100, step 0.1) and the time text
criarControlesUI ==
    [playBtn |-> PlayGlyph, muteBtn |-> MutedGlyph, progress |-> 0,
     timeEl |-> TimeText(Num(0), 0)]

\* the player of playerVars { autoplay: 1, mute: 1 } before it starts
NewPlayer == [state |-> UNSTARTED, muted |-> TRUE, time |-> Num(0)]

\* the value a range input of max 100 and step 0.1 takes when it is given
\* num / den percent: the nearest step within its range, in tenths
RangeValue(num, den) == Clamp((2 * 10 * num + den) \div (2 * den), 1000)

\* the closure of one criarVideo call
NewVideo(url) ==
    [url |-> url,
     isYT |-> isYouTubeUrl(url),
     videoID |-> VideoIdOf(url),
     listening |-> TRUE,        \* the click listener is attached
     clicks |-> 0,              \* click events dispatched on the placeholder
     handlerRuns |-> 0,         \* runs of the click listener
     html5 |-> 0,               \* players built by criarVideoHTML5Direto
     yt |-> 0,                  \* YT.Player instances constructed
     iframes |-> 0,             \* iframes built by the earlier renderer
     opened |-> 0,              \* window.open calls
     everMounted |-> FALSE,     \* the shell has been in the document
     ready |-> FALSE,           \* onReady has fired
     timer |-> "null",          \* progressTimer: "null" | "running" | "cleared"
     mo |-> FALSE,              \* the MutationObserver is observing
     polled |-> FALSE,          \* the interval callback has run
     duration |-> 0,            \* let duration = 0, in tenths of a second
     controls |-> criarControlesUI,
     player |-> NewPlayer,      \* the player the iframe holds, once there is one
     cmd |-> <<>>]              \* the last call that asks the player to act

\* criarVideoHTML5Direto: shell > inner > video
criarVideoHTML5Direto(key) ==
    [Node(key, "div", <<"video-shell">>,
          << Node(key, "div", <<"video-inner">>,
                  << Node(key, "video", <<>>, <<>>) >>) >>)
       EXCEPT !.player = "video"]

\* the shell of the YouTube branch: shell > (inner > playerHost), controls
YouTubeShell(key) ==
    [Node(key, "div", <<"video-shell">>,
          << Node(key, "div", <<"video-inner">>,
                  << Node(key, "div", <<"yt-player-host">>, <<>>) >>),
             Node(key, "div", <<"yt-controls">>, <<>>) >>)
       EXCEPT !.player = "yt"]

\* the placeholder of the earlier renderer after its click: innerHTML is the
\* iframe and the class video-loaded is added
LoadedContainer(n) ==
    [n EXCEPT !.cls = Append(@, "video-loaded"),
              !.children = << Node(n.key, "iframe", <<>>, <<>>) >>]

RECURSIVE ReplaceIn(_, _, _)
ReplaceIn(nodes, key, new) ==
    [i \in 1..Len(nodes) |->
        IF nodes[i].key = key /\ IsPlaceholder(nodes[i]) THEN new
        ELSE [nodes[i] EXCEPT !.children = ReplaceIn(@, key, new)]]

\* a replaceWith that would mount the new node although the old one has no parent
replaceWithAlways(nodes, key, new) ==
    IF PlaceholderIn(nodes, key) THEN ReplaceIn(nodes, key, new)
    ELSE Append(nodes, new)

\* a replaceWith that leaves the placeholder where it is
replaceWithNothing(nodes, key, new) == nodes

\* containerVideo.replaceWith(new) as seen in the document: a node that has
\* no parent in the document is replaced nowhere
replaceWith(nodes, key, new) == ReplaceIn(nodes, key, new)

RECURSIVE MarkLoaded(_, _)
MarkLoaded(nodes, key) ==
    [i \in 1..Len(nodes) |->
        IF nodes[i].key = key /\ IsPlaceholder(nodes[i]) THEN LoadedContainer(nodes[i])
        ELSE [nodes[i] EXCEPT !.children = MarkLoaded(@, key)]]

\* the callbacks of the MutationObservers of the video shells, after a
\* mutation below document.body: a shell that is no longer in the document
\* has its interval cleared (if set) and its observer disconnected
DeliverMutations(vs, nodes) ==
    [k \in DOMAIN vs |->
        IF vs[k].mo /\ ~ShellIn(nodes, k)
        THEN [vs[k] EXCEPT !.timer = IF @ = "running" THEN "cleared" ELSE @,
                           !.mo = FALSE]
        ELSE vs[k]]

\* player.getDuration() for the video of an id, in tenths of a second: 0 for
\* a video whose duration the player does not know when it is ready
getDuration(videoID) ==
    CASE videoID = <<"x", "y", "z">> -> 1250
      [] videoID = <<"q", "w", "e">> -> 30
      [] OTHER -> 0

\* onReady: duration = player.getDuration() || 0, the time text, setInterval
onReady(v) ==
    [v EXCEPT !.ready = TRUE,
              !.duration = getDuration(v.videoID),
              !.controls.timeEl = TimeText(Num(0), getDuration(v.videoID)),
              !.timer = "running"]

\* the interval callback: ct = player.getCurrentTime(); nothing when ct is not
\* finite; else the time text, and progress.value = (ct / duration) * 100
\* when duration > 0
Tick(v) ==
    IF ~v.player.time.finite THEN [v EXCEPT !.polled = TRUE]
    ELSE [v EXCEPT
            !.polled = TRUE,
            !.controls.timeEl = TimeText(v.player.time, v.duration),
            !.controls.progress =
                IF v.duration > 0 THEN RangeValue(100 * v.player.time.v, v.duration)
                ELSE @]

\* an onStateChange that does not hear the end of the video
onStateChangeNoEnded(v, data) ==
    IF data = PLAYING THEN [v EXCEPT !.controls.playBtn = PauseGlyph]
    ELSE IF data = PAUSED THEN [v EXCEPT !.controls.playBtn = PlayGlyph]
    ELSE v

\* onStateChange(e), data being e.data
onStateChange(v, data) ==
    IF data = PLAYING THEN [v EXCEPT !.controls.playBtn = PauseGlyph]
    ELSE IF data = PAUSED \/ data = ENDED THEN [v EXCEPT !.controls.playBtn = PlayGlyph]
    ELSE v

\* a listener that decides by what the button shows
playBtnClickByGlyph(v) ==
    IF v.controls.playBtn = PauseGlyph THEN [v EXCEPT !.cmd = <<"pauseVideo">>]
    ELSE [v EXCEPT !.cmd = <<"playVideo">>]

\* the click listener of playBtn: state = player.getPlayerState()
playBtnClick(v) ==
    IF v.player.state = PLAYING THEN [v EXCEPT !.cmd = <<"pauseVideo">>]
    ELSE [v EXCEPT !.cmd = <<"playVideo">>]

\* a listener that changes the glyph and leaves the player as it is
muteBtnClickGlyphOnly(v) ==
    IF v.player.muted THEN [v EXCEPT !.controls.muteBtn = SoundGlyph]
    ELSE [v EXCEPT !.controls.muteBtn = MutedGlyph]

\* the click listener of muteBtn: unMute() or mute(), and the glyph
muteBtnClick(v) ==
    IF v.player.muted
    THEN [v EXCEPT !.player.muted = FALSE, !.controls.muteBtn = SoundGlyph]
    ELSE [v EXCEPT !.player.muted = TRUE, !.controls.muteBtn = MutedGlyph]

\* a listener that seeks whatever the duration
progressInputUnguarded(v, value) ==
    [v EXCEPT !.controls.progress = value,
              !.cmd = <<"seekTo", value * v.duration>>]

\* the input listener of progress, the user having set the slider to value
\* (tenths of a percent): t = (parseFloat(progress.value) / 100) * duration
\* when duration > 0. The target is kept in ten-thousandths of a second.
progressInput(v, value) ==
    IF v.duration > 0
    THEN [v EXCEPT !.controls.progress = value,
                   !.cmd = <<"seekTo", value * v.duration>>]
    ELSE [v EXCEPT !.controls.progress = value]

\* a listener added without once: true stays attached
OnceOptionMissing == FALSE

\* { once: true } of the click listener of criarVideo
OnceOption == TRUE

\* an ensureYouTubeAPI that does not look at window._ytApiReadyPromise
ensureYouTubeAPINoCache(api) ==
    IF api.playerDefined THEN [api |-> api, promise |-> 0]
    ELSE [api |-> [api EXCEPT !.promise = api.created + 1,
                              !.callback = api.created + 1,
                              !.created = @ + 1,
                              !.scriptTags = @ + 1],
          promise |-> api.created + 1]

\* ensureYouTubeAPI: the new state of window and the promise returned
\* (0: Promise.resolve(), already resolved)
ensureYouTubeAPI(api) ==
    IF api.playerDefined THEN [api |-> api, promise |-> 0]
    ELSE IF api.promise # 0 THEN [api |-> api, promise |-> api.promise]
    ELSE [api |-> [api EXCEPT !.promise = api.created + 1,
                              !.callback = api.created + 1,
                              !.created = @ + 1,
                              !.scriptTags = @ + 1],
          promise |-> api.created + 1]

\* the state the handlers act on
World == [container |-> container, videos |-> videos, ytApi |-> ytApi,
          waiters |-> waiters]

\* the rest of the click handler after "await ensureYouTubeAPI()".
\* new YT.Player(hostId) looks hostId up in the document: when the shell was
\* not mounted the constructor finds nothing, and either throws (the handler
\* ends there) or returns a player that never loads.
PlayerBuilt(w, k, nodes, mounted, vs, orphanThrows) ==
    [w EXCEPT
      !.container = nodes,
      !.videos =
         IF ~mounted /\ orphanThrows THEN vs
         ELSE [vs EXCEPT ![k] = [@ EXCEPT !.yt = @ + 1,
                                          !.mo = TRUE,
                                          !.everMounted = @ \/ mounted]]]

\* the videos after the observers have seen the document become nodes
Observed(w, nodes) ==
    IF nodes # w.container THEN DeliverMutations(w.videos, nodes) ELSE w.videos

ShellPlaced(w, k, nodes, orphanThrows) ==
    PlayerBuilt(w, k, nodes, ShellIn(nodes, k), Observed(w, nodes), orphanThrows)

ActivateYouTube(w, k, orphanThrows) ==
    ShellPlaced(w, k, replaceWith(w.container, k, YouTubeShell(k)), orphanThrows)

\* branch 1 of the click handler
DirectPlaced(w, k, nodes) ==
    [w EXCEPT !.container = nodes,
              !.videos = [Observed(w, nodes) EXCEPT ![k].html5 = @ + 1]]

ActivateDirect(w, k) ==
    DirectPlaced(w, k, replaceWith(w.container, k, criarVideoHTML5Direto(k)))

\* a handler that swaps the placeholder for the shell before it awaits
AwaitingAfterShell(w, k, e) ==
    IF e.promise = 0
    THEN ActivateYouTube([w EXCEPT !.ytApi = e.api], k, FALSE)
    ELSE [w EXCEPT !.container = replaceWith(@, k, YouTubeShell(k)),
                   !.ytApi = e.api,
                   !.waiters = Append(@, [key |-> k, promise |-> e.promise])]

\* branch 2 of the click handler, up to the await
Awaiting(w, k, e) ==
    IF e.promise = 0
    THEN ActivateYouTube([w EXCEPT !.ytApi = e.api], k, FALSE)
    ELSE [w EXCEPT !.ytApi = e.api,
                   !.waiters = Append(@, [key |-> k, promise |-> e.promise])]

AwaitYouTubeAPI(w, k) == Awaiting(w, k, ensureYouTubeAPI(w.ytApi))

\* branch 3 of the click handler
OpenFallback(w, k) == [w EXCEPT !.videos[k].opened = @ + 1]

\* the click listener of the earlier renderer
ClickHandlerMain(w, k) ==
    [w EXCEPT !.container = MarkLoaded(@, k),
              !.videos[k].iframes = @ + 1]

\* the click listener of criarVideo
ClickHandler(w, k) ==
    IF isDirectMediaUrl(w.videos[k].url) THEN ActivateDirect(w, k)
    ELSE IF w.videos[k].isYT /\ Truthy(w.videos[k].videoID) THEN AwaitYouTubeAPI(w, k)
    ELSE OpenFallback(w, k)

\* the dispatch of one click event on the placeholder built for k
RunListener(w, k) ==
    IF variant = "main" THEN ClickHandlerMain(w, k) ELSE ClickHandler(w, k)

DispatchClick(w, k) ==
    IF ~w.videos[k].listening THEN [w EXCEPT !.videos[k].clicks = @ + 1]
    ELSE RunListener([w EXCEPT !.videos[k].clicks = @ + 1,
                               !.videos[k].listening = ~OnceOption,
                               !.videos[k].handlerRuns = @ + 1], k)

\* the continuations of the handlers that awaited the promise, in the order
\* in which they awaited it
RECURSIVE RunContinuations(_, _, _, _)
RunContinuations(ws, i, w, orphanThrows) ==
    IF i > Len(ws) THEN w
    ELSE RunContinuations(ws, i + 1, ActivateYouTube(w, ws[i].key, orphanThrows),
                          orphanThrows)

---------------------------------------------------------------------------
(* The info-box trigger and its position *)

\* the element at a path of indexes below a list of elements
RECURSIVE ElementAt(_, _)
ElementAt(els, path) ==
    IF Len(path) = 1 THEN els[path[1]]
    ELSE ElementAt(els[path[1]].elements, Tail(path))

\* the node built for key in a forest (NoNode when it is not there)
RECURSIVE InTree(_, _)
InTree(nodes, key) ==
    \E i \in 1..Len(nodes) : nodes[i].key = key \/ InTree(nodes[i].children, key)

RECURSIVE FindNode(_, _)
FindNode(nodes, key) ==
    IF nodes = <<>> THEN NoNode
    ELSE IF Head(nodes).key = key THEN Head(nodes)
    ELSE IF InTree(Head(nodes).children, key) THEN FindNode(Head(nodes).children, key)
    ELSE FindNode(Tail(nodes), key)

\* an anchor that counts as connected while any node built for its key is
\* in the forest
AnchorInByKey(nodes, anchor, cls) == anchor # NoKey /\ InTree(nodes, anchor)

\* anchorEl && anchorEl.isConnected: the node the trigger closed over, of
\* class cls and built for key anchor, is in the forest
AnchorIn(nodes, anchor, cls) == anchor # NoKey /\ InForest(nodes, anchor, cls)

\* the same for the anchor of a trigger in the document
AnchorConnected(button) == AnchorIn(container, button.anchor, button.anchorCls)

\* the info-box triggers of a forest
Triggers(nodes) == {n \in NodesOf(nodes) : HasClass(n, "infobox-trigger")}

\* style.left and style.top before the first applyPosition
Unpositioned == [set |-> FALSE, left |-> 0, top |-> 0]

\* a position that is never taken relative to the anchor
RawOffsetOfContainer(offset, anchored, anchorAt, containerAt) == offset

\* left and top before the clamp: relative to the anchor when there is one in
\* the document, to the container otherwise
RawOffset(offset, anchored, anchorAt, containerAt) ==
    IF anchored THEN (anchorAt - containerAt) + offset ELSE offset

\* applyPosition for a trigger that is connected: the new style.left and
\* style.top, in px. anchorConnected is "anchorEl && anchorEl.isConnected";
\* lay holds what the code reads from the layout:
\* container.getBoundingClientRect() (contLeft, contTop),
\* anchorEl.getBoundingClientRect() (aLeft, aTop), container.clientWidth and
\* clientHeight, button.offsetWidth and offsetHeight.
applyPosition(el, anchorConnected, lay) ==
    [set |-> TRUE,
     left |-> Clamp(RawOffset(FieldOr(el, "x", 0),
                              INFOBOX_ANCHOR_MODE # "container" /\ anchorConnected,
                              lay.aLeft, lay.contLeft),
                    lay.clientWidth - lay.offsetWidth),
     top |-> Clamp(RawOffset(FieldOr(el, "y", 0),
                             INFOBOX_ANCHOR_MODE # "container" /\ anchorConnected,
                             lay.aTop, lay.contTop),
                   lay.clientHeight - lay.offsetHeight)]

\* What is left of the closures once the engine has collected the ones that
\* nothing can reach any more: a closure stays while its placeholder or shell
\* is in the document, while its handler awaits the API, while its interval
\* runs, while its observer observes, or while its player can still call
\* onReady.
Reachable(w, k) ==
    \/ PlaceholderIn(w.container, k)
    \/ ShellIn(w.container, k)
    \/ \E i \in 1..Len(w.waiters) : w.waiters[i].key = k
    \/ w.videos[k].timer = "running"
    \/ w.videos[k].mo
    \/ w.videos[k].yt > 0 /\ w.videos[k].everMounted /\ ~w.videos[k].ready

Collect(w) ==
    [k \in {x \in DOMAIN w.videos : Reachable(w, x)} |-> w.videos[k]]

---------------------------------------------------------------------------
(* The closure of an info-box trigger, the height signal, the modal *)

\* a recalculation that writes nothing
atualizarAlturaNever(p, lay) == p

\* atualizarAlturaDoContainer: --sec-h takes container.clientHeight
atualizarAlturaDoContainer(p, lay) == [p EXCEPT !.h = lay.clientHeight]

\* the document: the slide container and the content of the modal
Document(nodes, modalNodes) == [container |-> nodes, modal |-> modalNodes]

\* button.isConnected, document.body.contains(button)
isConnectedAlways(doc, k) == TRUE

isConnected(doc, k) == InTree(doc.container, k) \/ InTree(doc.modal, k)

\* the img, video and iframe elements below a node, the node included when it
\* is one of them
RECURSIVE MediaBelow(_)
MediaBelow(n) ==
    (IF HasClass(n, "image-element") THEN {[kind |-> "img", key |-> n.key]}
     ELSE IF n.tag = "video" THEN {[kind |-> "video", key |-> n.key]}
     ELSE IF n.tag = "iframe" THEN {[kind |-> "iframe", key |-> n.key]}
     ELSE {})
    \cup UNION { MediaBelow(n.children[i]) : i \in 1..Len(n.children) }

MediaIn(nodes) == UNION { MediaBelow(nodes[i]) : i \in 1..Len(nodes) }

\* anchorEl.querySelectorAll('img, video, iframe'), less the images that are
\* complete: the media a new trigger adds its once-listeners to
ListenedMedia(anchor, nodes, loaded) ==
    IF anchor = NoKey \/ ~InTree(nodes, anchor) THEN {}
    ELSE { m \in MediaBelow(FindNode(nodes, anchor)) :
              ~(m.kind = "img" /\ m \in loaded) }

\* what criarGatilhoInfoBox leaves behind for the button it returns: the
\* element and the anchor it closed over, a ResizeObserver on the container
\* and on the anchor (its first notification pending), once-listeners on the
\* media of the anchor, a resize listener on window, one MutationObserver on
\* document.body, and a frame callback
NewTrigger(el, anchor, anchorCls, media) ==
    [el |-> el, anchor |-> anchor, anchorCls |-> anchorCls,
     ro |-> TRUE, notified |-> TRUE,
     media |-> media,
     onResize |-> TRUE,
     mo |-> 1,
     raf |-> TRUE]

\* a cleanup that leaves the observers and the listener in place
TeardownNothing(t) == t

\* the body of the MutationObserver callback once the button is out of
\* document.body: removeEventListener, ro.disconnect(), mo.disconnect()
Teardown(t) == [t EXCEPT !.onResize = FALSE, !.ro = FALSE, !.notified = FALSE,
                         !.mo = 0]

\* MutationObserver callbacks that run as soon as the observer is
\* registered, against the document as it is before the handler mounts
\* what it built
TriggerMutationsAtRegistration(ts, doc) ==
    [k \in DOMAIN ts |->
        IF ts[k].mo > 0 /\ ~isConnected(Document(container, modal.content), k)
        THEN Teardown(ts[k]) ELSE ts[k]]

\* the MutationObserver callbacks of the closures ts, the new ones included:
\* they run as microtasks once the handler that changed the document has
\* returned, when the document has become doc
TriggerMutations(ts, doc) ==
    [k \in DOMAIN ts |->
        IF ts[k].mo > 0 /\ ~isConnected(doc, k) THEN Teardown(ts[k]) ELSE ts[k]]

\* a closure stays while its button is in the document or something can still
\* call into it; a once-listener on a media element goes with the element
TriggerReachable(ts, doc, k) ==
    \/ isConnected(doc, k)
    \/ ts[k].raf
    \/ ts[k].ro
    \/ ts[k].onResize
    \/ ts[k].mo > 0

CollectTriggers(ts, doc) ==
    [k \in {x \in DOMAIN ts : TriggerReachable(ts, doc, x)} |->
        [ts[k] EXCEPT !.media = @ \cap MediaIn(doc.container)]]

\* the closures once the document is doc, built being the trigger nodes that
\* the handler created; loaded are the media that have fired load
TriggersWith(old, built, els, doc, loaded) ==
    CollectTriggers(
        TriggerMutations(
            [k \in DOMAIN old \cup {n.key : n \in built} |->
                IF k \in DOMAIN old THEN old[k]
                ELSE NewTrigger(ElementAt(els, k[2]),
                                (CHOOSE n \in built : n.key = k).anchor,
                                (CHOOSE n \in built : n.key = k).anchorCls,
                                ListenedMedia((CHOOSE n \in built : n.key = k).anchor,
                                              doc.container, loaded))],
            doc),
        doc)

\* style.left and style.top of the buttons once the document is doc: those of
\* the buttons that stay, and none yet for the new ones
StylesWith(old, doc, built) ==
    [k \in {x \in DOMAIN old : isConnected(doc, x)} \cup {n.key : n \in built} |->
        IF k \in DOMAIN old /\ isConnected(doc, k) THEN old[k] ELSE Unpositioned]

\* applyPosition run by the closures of ks under layout lay: a button that is
\* not connected is left alone
Positions(ks, doc, lay) ==
    [k \in DOMAIN buttonStyle \cup {x \in ks : isConnected(doc, x)} |->
        IF k \in ks /\ isConnected(doc, k)
        THEN applyPosition(triggers[k].el,
                           AnchorIn(doc.container, triggers[k].anchor,
                                    triggers[k].anchorCls),
                           lay)
        ELSE buttonStyle[k]]

\* the ResizeObservers that get a notification when the layout goes from lay
\* to new: the box of the container has changed
ContainerResized(lay, new) ==
    lay.clientWidth # new.clientWidth \/ lay.clientHeight # new.clientHeight

Notified(ts, resized) ==
    [k \in DOMAIN ts |-> [ts[k] EXCEPT !.notified = @ \/ (resized /\ ts[k].ro)]]

---------------------------------------------------------------------------
(* Operations *)

\* the closures after a render: the ones that were there, and one for each
\* placeholder built
VideosWith(old, built) ==
    [k \in DOMAIN old \cup {n.key : n \in built} |->
        IF k \in DOMAIN old THEN old[k]
        ELSE NewVideo((CHOOSE n \in built : n.key = k).url)]

\* a handler that asks for no frame
FrameNotPending(p, doc) ==
    [p EXCEPT !.loaded = @ \cap (MediaIn(doc.container) \cup MediaIn(doc.modal))]

\* renderSlide asks for a recalculation in the next frame, as do the builders
\* of the nodes whose size is not final; the media that left the document are
\* forgotten
FramePending(p, doc) ==
    [p EXCEPT !.raf = TRUE,
              !.loaded = @ \cap (MediaIn(doc.container) \cup MediaIn(doc.modal))]

\* the trigger closures, the styles of their buttons and the height signal
\* once the document is doc, built being the trigger nodes just created
MountedTriggers(doc, built, els) ==
    /\ triggers' = TriggersWith(triggers, built, els, doc, sec.loaded)
    /\ buttonStyle' = StylesWith(buttonStyle, doc, built)
    /\ sec' = FramePending(sec, doc)

\* the document and the closures once container holds nodes, built for els
Mounted(nodes, els) ==
    /\ container' = nodes
    /\ videos' = Collect([World EXCEPT
                            !.container = nodes,
                            !.videos = VideosWith(DeliverMutations(videos, nodes),
                                                  {n \in NodesOf(nodes) : IsPlaceholder(n)})])
    /\ MountedTriggers(Document(nodes, modal.content), Triggers(nodes), els)

\* a header that leaves the audio player as it is for a slide without audio
HeaderAudioKept(slideObject) ==
    /\ titleEl' = FieldOr(slideObject, "title", "")
    /\ subtitleEl' = FieldOr(slideObject, "subtitle", "")
    /\ audioPlayer' =
         IF FieldOr(slideObject, "audio", "") # ""
         THEN [src |-> <<"assets/audio/", slideObject.audio>>, display |-> "block"]
         ELSE audioPlayer

\* the header and the audio player of the slide
Header(slideObject) ==
    /\ titleEl' = FieldOr(slideObject, "title", "")
    /\ subtitleEl' = FieldOr(slideObject, "subtitle", "")
    /\ audioPlayer' =
         IF FieldOr(slideObject, "audio", "") # ""
         THEN [src |-> <<"assets/audio/", slideObject.audio>>, display |-> "block"]
         ELSE [src |-> <<>>, display |-> "none"]

\* the children of container after the forEach of renderSlide
RenderedNodes(slideObject, gen) ==
    IF HasField(slideObject, "elements") /\ Len(slideObject.elements) > 0
    THEN RenderElements(slideObject.elements, 1, gen, <<>>)
    ELSE <<>>

\* renderSlide(slideObject), slideObject being slide i of the flattened course
renderSlide(slideObject, i) ==
    /\ renderCount < MaxRenders
    /\ Mounted(RenderedNodes(slideObject, renderCount + 1),
               FieldOr(slideObject, "elements", <<>>))
    /\ Header(slideObject)
    /\ renderCount' = renderCount + 1
    /\ slideAtual' = i
    /\ UNCHANGED <<variant, ytApi, waiters, layout, modal>>

---------------------------------------------------------------------------
(* main.js: the flattened course, the menu, the two buttons *)

\* achatarSlides: the Slide items in document order, those of the groups that
\* have items included; items of any other type are skipped
RECURSIVE achatarSlides(_)
achatarSlides(items) ==
    IF items = <<>> THEN <<>>
    ELSE IF FieldOr(Head(items), "type", "") = "Slide"
         THEN <<Head(items)>> \o achatarSlides(Tail(items))
    ELSE IF FieldOr(Head(items), "type", "") = "SlideGroup" /\ HasField(Head(items), "items")
         THEN achatarSlides(Head(items).items) \o achatarSlides(Tail(items))
    ELSE achatarSlides(Tail(items))

\* construirNavegacao: the a.menu-item elements of the menu in document order,
\* each with its data-id and whether it carries the class "active"
RECURSIVE construirNavegacao(_)
construirNavegacao(items) ==
    IF items = <<>> THEN <<>>
    ELSE IF FieldOr(Head(items), "type", "") = "Slide"
         THEN <<[id |-> Head(items).id, active |-> FALSE]>>
              \o construirNavegacao(Tail(items))
    ELSE IF FieldOr(Head(items), "type", "") = "SlideGroup" /\ HasField(Head(items), "items")
         THEN construirNavegacao(Head(items).items) \o construirNavegacao(Tail(items))
    ELSE construirNavegacao(Tail(items))

\* the index (from 1) of the first element of seq that satisfies Test, 0 when
\* there is none: querySelector on the menu, findIndex on the slides
FirstIndex(seq, Test(_)) ==
    IF \E i \in 1..Len(seq) : Test(seq[i])
    THEN CHOOSE i \in 1..Len(seq) :
            Test(seq[i]) /\ \A j \in 1..(i - 1) : ~Test(seq[j])
    ELSE 0

\* an item that keeps its marker
DeactivatedNone(menu, first) == menu

\* classList.remove('active') on the first active item
Deactivated(menu, first) ==
    [i \in 1..Len(menu) |-> IF i = first THEN [menu[i] EXCEPT !.active = FALSE]
                            ELSE menu[i]]

\* classList.add('active') on the first item of that data-id
Activate(menu, first) ==
    [i \in 1..Len(menu) |-> IF i = first THEN [menu[i] EXCEPT !.active = TRUE]
                            ELSE menu[i]]

SameId(menu, slideId) == FirstIndex(menu, LAMBDA item : item.id = slideId)

atualizarMenuActive(menu, slideId) ==
    Activate(Deactivated(menu, FirstIndex(menu, LAMBDA item : item.active)),
             SameId(menu, slideId))

\* a "next" button that looks one slide too far
ShownOffByOne(n, slides, index) ==
    [n EXCEPT !.slideAtualIndex = index,
              !.btnAnterior = [disabled |-> index = 0],
              !.btnProximo = [disabled |-> index = Len(slides)],
              !.menu = atualizarMenuActive(@, slides[index + 1].id),
              !.hash = slides[index + 1].id]

\* what exibirSlide(index) leaves in main.js and in the page around the
\* rendered slide (index counts from 0, as in the code)
Shown(n, slides, index) ==
    [n EXCEPT !.slideAtualIndex = index,
              !.btnAnterior = [disabled |-> index = 0],
              !.btnProximo = [disabled |-> index = Len(slides) - 1],
              !.menu = atualizarMenuActive(@, slides[index + 1].id),
              !.hash = slides[index + 1].id]

\* slidesAchatados.findIndex(s => s.id === slideId), from 0, -1 when none
findIndex(slides, slideId) ==
    FirstIndex(slides, LAMBDA s : FieldOr(s, "id", Null) = slideId) - 1

\* exibirSlide(index) called in a handler that leaves main.js as n and
\* slidesAchatados as slides, with its early return when index is out of range
exibirSlide(n, slides, index) ==
    IF index < 0 \/ index >= Len(slides)
    THEN /\ nav' = n
         /\ course' = slides
         /\ UNCHANGED <<variant, renderCount, slideAtual, container,
                        titleEl, subtitleEl, audioPlayer, videos, ytApi, waiters,
                        layout, buttonStyle, triggers, sec, modal>>
    ELSE /\ renderSlide(slides[index + 1], index + 1)
         /\ nav' = Shown(n, slides, index)
         /\ course' = slides

\* a slide is displayed: by init() once the course is loaded (the slide named
\* by the hash of the location), after which configurarEventos attaches the
\* listeners; afterwards by a click on an item of the menu
RenderSlide ==
    /\ nav.loaded
    /\ \E m \in 1..Len(nav.menu) :
         exibirSlide([nav EXCEPT !.listening = TRUE], course,
                     findIndex(course, nav.menu[m].id))

\* the slide init() displays first: the one whose id the hash of the location
\* names, the first one when the hash names none
StartIndex(slides, slideIdFromHash) ==
    IF findIndex(slides, slideIdFromHash) # -1
    THEN findIndex(slides, slideIdFromHash)
    ELSE 0

\* init() from the moment data.json has arrived
InitWith(items, slides, slideIdFromHash) ==
    exibirSlide([nav EXCEPT !.loaded = TRUE, !.listening = TRUE,
                            !.menu = construirNavegacao(items)],
                slides, StartIndex(slides, slideIdFromHash))

\* a click on "next" and a click on "previous"
ClickNext ==
    /\ nav.listening
    /\ exibirSlide(nav, course, nav.slideAtualIndex + 1)

ClickPrev ==
    /\ nav.listening
    /\ exibirSlide(nav, course, nav.slideAtualIndex - 1)

\* a failure that nobody hears of
LoadFailSilent ==
    /\ ~nav.loaded
    /\ ~nav.listening
    /\ nav' = [nav EXCEPT !.listening = TRUE]
    /\ UNCHANGED <<course, variant, renderCount, slideAtual, container,
                   titleEl, subtitleEl, audioPlayer, videos, ytApi, waiters,
                   layout, buttonStyle, triggers, sec, modal>>

\* carregarDadosDoCurso fails (the fetch rejects, the status is not ok, the
\* body is not JSON): it alerts and returns null, init() skips the course and
\* attaches the listeners
LoadFail ==
    /\ ~nav.loaded
    /\ ~nav.listening
    /\ nav' = [nav EXCEPT !.alerts = @ + 1, !.listening = TRUE]
    /\ UNCHANGED <<course, variant, renderCount, slideAtual, container,
                   titleEl, subtitleEl, audioPlayer, videos, ytApi, waiters,
                   layout, buttonStyle, triggers, sec, modal>>

\* the state after a handler has run: a handler that has placed a player
\* asks for a recalculation in the next frame
Commit(w) ==
    /\ container' = w.container
    /\ videos' = Collect(w)
    /\ ytApi' = w.ytApi
    /\ waiters' = w.waiters
    /\ sec' = IF w.container # container THEN [sec EXCEPT !.raf = TRUE] ELSE sec

\* a click on a placeholder that is in the document
ClickVideo ==
    \E k \in DOMAIN videos :
        /\ PlaceholderIn(container, k)
        /\ videos[k].clicks < MaxClicks
        /\ Commit(DispatchClick(World, k))
        /\ UNCHANGED <<course, variant, renderCount, slideAtual, titleEl,
                       subtitleEl, audioPlayer, layout, buttonStyle,
                       nav, triggers, modal>>

\* the iframe_api script has loaded: it defines YT.Player and calls
\* window.onYouTubeIframeAPIReady, which resolves the promise it closed over;
\* the handlers that awaited that promise continue
ApiReady ==
    /\ ytApi.scriptTags > 0
    /\ ~ytApi.playerDefined
    /\ \E orphanThrows \in BOOLEAN :
         Commit(RunContinuations(
                  SelectSeq(waiters, LAMBDA x : x.promise = ytApi.callback), 1,
                  [World EXCEPT
                     !.ytApi.playerDefined = TRUE,
                     !.waiters = SelectSeq(waiters,
                                           LAMBDA x : x.promise # ytApi.callback)],
                  orphanThrows))
    /\ UNCHANGED <<course, variant, renderCount, slideAtual, titleEl,
                   subtitleEl, audioPlayer, layout, buttonStyle,
                       nav, triggers, modal>>

\* onReady of a player whose iframe was loaded in the document: the interval
\* is started whether or not the shell is still there
PlayerReady ==
    \E k \in DOMAIN videos :
        /\ videos[k].yt > 0
        /\ videos[k].everMounted
        /\ ~videos[k].ready
        /\ videos' = [videos EXCEPT ![k] = onReady(@)]
        /\ sec' = [sec EXCEPT !.raf = TRUE]
        /\ UNCHANGED <<course, variant, renderCount, slideAtual, container,
                       titleEl, subtitleEl, audioPlayer, ytApi, waiters, layout,
                       buttonStyle, nav, triggers, modal>>

\* one run of the interval callback (a run that changes nothing is no step)
PollTick ==
    \E k \in DOMAIN videos :
        /\ videos[k].timer = "running"
        /\ videos' = [videos EXCEPT ![k] = Tick(@)]
        /\ videos' # videos
        /\ UNCHANGED <<course, variant, renderCount, slideAtual, container,
                       titleEl, subtitleEl, audioPlayer, ytApi, waiters, layout,
                       buttonStyle, nav, triggers, sec, modal>>

\* one call of applyPosition for a trigger that is in the document (from the
\* animation frame after the render, a ResizeObserver, a load event or the
\* window resize listener)
Reposition ==
    \E k \in DOMAIN buttonStyle :
        /\ IsNode(FindNode(container, k))
        /\ buttonStyle' =
             [buttonStyle EXCEPT ![k] =
                applyPosition(ElementAt(course[slideAtual].elements, k[2]),
                              AnchorConnected(FindNode(container, k)),
                              layout)]
        /\ UNCHANGED <<course, variant, renderCount, slideAtual, container,
                       titleEl, subtitleEl, audioPlayer, videos, ytApi, waiters,
                       layout, nav, triggers, sec, modal>>

\* the players whose controls are in the document
Playable(k) == videos[k].yt > 0 /\ ShellIn(container, k)

\* the positions a player reports: none that is finite, the start, one second,
\* a minute and a half second, the end of the longer video
PlayerTimes == { NaN, Num(0), Num(10), Num(615), Num(1250) }

\* the playback position of a player changes (it plays, it seeks, it loses
\* its video); a known position is within the duration of the video
TimeUpdate ==
    \E k \in DOMAIN videos, t \in PlayerTimes :
        /\ Playable(k)
        /\ t # videos[k].player.time
        /\ getDuration(videos[k].videoID) > 0 => t.v <= getDuration(videos[k].videoID)
        /\ videos' = [videos EXCEPT ![k].player.time = t]
        /\ UNCHANGED <<course, variant, renderCount, slideAtual, container,
                       titleEl, subtitleEl, audioPlayer, ytApi, waiters, layout,
                       buttonStyle, nav, triggers, sec, modal>>

\* the player changes state (autoplay starts, the video buffers, ends, is
\* paused or resumed) and calls onStateChange with the new state
StateChange ==
    \E k \in DOMAIN videos, data \in PlayerStates :
        /\ Playable(k)
        /\ data # videos[k].player.state
        /\ videos' = [videos EXCEPT
                         ![k] = onStateChange([@ EXCEPT !.player.state = data], data)]
        /\ UNCHANGED <<course, variant, renderCount, slideAtual, container,
                       titleEl, subtitleEl, audioPlayer, ytApi, waiters, layout,
                       buttonStyle, nav, triggers, sec, modal>>

\* a click on the play/pause button
ClickPlay ==
    \E k \in DOMAIN videos :
        /\ Playable(k)
        /\ videos' = [videos EXCEPT ![k] = playBtnClick(@)]
        /\ UNCHANGED <<course, variant, renderCount, slideAtual, container,
                       titleEl, subtitleEl, audioPlayer, ytApi, waiters, layout,
                       buttonStyle, nav, triggers, sec, modal>>

\* a click on the mute button
ClickMute ==
    \E k \in DOMAIN videos :
        /\ Playable(k)
        /\ videos' = [videos EXCEPT ![k] = muteBtnClick(@)]
        /\ UNCHANGED <<course, variant, renderCount, slideAtual, container,
                       titleEl, subtitleEl, audioPlayer, ytApi, waiters, layout,
                       buttonStyle, nav, triggers, sec, modal>>

\* the values the user sets the slider to, in tenths of a percent
SliderValues == { 0, 333, 1000 }

\* the user moves the slider
SeekInput ==
    \E k \in DOMAIN videos, value \in SliderValues :
        /\ Playable(k)
        /\ videos' = [videos EXCEPT ![k] = progressInput(@, value)]
        /\ UNCHANGED <<course, variant, renderCount, slideAtual, container,
                       titleEl, subtitleEl, audioPlayer, ytApi, waiters, layout,
                       buttonStyle, nav, triggers, sec, modal>>

---------------------------------------------------------------------------
(* The course of the main specification *)

TextEl == [type |-> "TextElement", text |-> "t"]
InfoBoxEl == [type |-> "InfoBoxElement", title |-> "i", x |-> 1, y |-> 1,
              elements |-> <<TextEl>>]
UnknownEl == [type |-> "QuizElement"]
NoTypeEl == [text |-> "t"]
VideoEl(url) == [type |-> "VideoElement", video |-> url]
GroupEl(els) == [type |-> "GroupElement", elements |-> els]

UrlShort == Https \o YoutuBe \o <<"/","a","b","c">>
UrlWatch == Https \o <<"w","w","w",".">> \o YoutubeCom
            \o <<"/","w","a","t","c","h">> \o <<"?","v","=","x","y","z">>
UrlFile == <<"f",".","m","p","4">>
UrlOther == Https \o <<"c","d","n",".","t","v">> \o <<"/","a","b","c">>

Slide1 ==
    [type |-> "Slide", id |-> 1, title |-> "A", audio |-> "a.mp3",
     elements |-> << TextEl,
                     VideoEl(UrlShort),
                     GroupEl(<< VideoEl(UrlWatch), NoTypeEl, InfoBoxEl >>),
                     UnknownEl,
                     [type |-> "SpacerElement", width |-> 1] >>]

Slide2 ==
    [type |-> "Slide", id |-> 2, subtitle |-> "b",
     elements |-> << VideoEl(UrlFile),
                     NullElement,
                     [type |-> "ListElement", styleName |-> "numberList", text |-> <<"t">>],
                     VideoEl(UrlOther),
                     [type |-> "ImageElement", source |-> "i.png"],
                     [type |-> "GridElement"],
                     [type |-> "AppLauncherElement", path |-> "p"],
                     InfoBoxEl >>]

InitPage ==
    /\ renderCount = 0
    /\ slideAtual = 0
    /\ container = <<>>
    /\ titleEl = ""
    /\ subtitleEl = ""
    /\ audioPlayer = [src |-> <<>>, display |-> "none"]
    /\ videos = <<>>
    /\ ytApi = [playerDefined |-> FALSE, promise |-> 0, callback |-> 0,
                created |-> 0, scriptTags |-> 0]
    /\ waiters = <<>>
    /\ buttonStyle = <<>>
    /\ triggers = <<>>
    /\ sec = [h |-> layout.clientHeight, raf |-> FALSE, ro |-> TRUE, loaded |-> {}]
    /\ modal = [hidden |-> TRUE, title |-> "", content |-> <<>>, opens |-> 0]

\* main.js before the course is loaded
NavAtLoad ==
    [loaded |-> FALSE, listening |-> FALSE, alerts |-> 0, slideAtualIndex |-> -1,
     btnAnterior |-> [disabled |-> FALSE], btnProximo |-> [disabled |-> FALSE],
     menu |-> <<>>, hash |-> 0]

\* main.js inside init(), the course loaded and the menu built, before the
\* first exibirSlide
NavAtInit(slides) ==
    [NavAtLoad EXCEPT !.loaded = TRUE, !.menu = construirNavegacao(slides)]

\* a layout in which everything is at the origin of a container that holds it
LayoutAtRest ==
    [contLeft |-> 0, contTop |-> 0, aLeft |-> 0, aTop |-> 0,
     clientWidth |-> MaxDim, clientHeight |-> MaxDim,
     offsetWidth |-> 1, offsetHeight |-> 1]

Init ==
    /\ course = <<Slide1, Slide2>>
    /\ nav = NavAtInit(course)
    /\ variant = "renderer"
    /\ layout = LayoutAtRest
    /\ InitPage

Next ==
    \/ RenderSlide
    \/ ClickVideo
    \/ ApiReady
    \/ PlayerReady
    \/ PollTick

Spec == Init /\ [][Next]_vars

---------------------------------------------------------------------------
(* One video of any URL, under the renderer and under the earlier renderer *)

VideoSlide(url) ==
    [type |-> "Slide", id |-> 1, title |-> "V", elements |-> << VideoEl(url) >>]

InitUrl ==
    /\ \E url \in VideoUrls : course = << VideoSlide(url) >>
    /\ nav = NavAtInit(course)
    /\ variant = "renderer"
    /\ layout = LayoutAtRest
    /\ InitPage

SpecUrl == InitUrl /\ [][Next]_vars

InitUrlMain ==
    /\ \E url \in VideoUrls : course = << VideoSlide(url) >>
    /\ nav = NavAtInit(course)
    /\ variant = "main"
    /\ layout = LayoutAtRest
    /\ InitPage

NextMain ==
    \/ RenderSlide
    \/ ClickVideo

SpecUrlMain == InitUrlMain /\ [][NextMain]_vars

---------------------------------------------------------------------------
(* One slide of any element tree: lists of at most MaxElems elements, the
   groups among them holding at most two elements *)

GroupLeaves == { TextEl, InfoBoxEl, UnknownEl }

Groups ==
    { [type |-> "GroupElement"] }
    \cup { GroupEl(<<>>) }
    \cup { GroupEl(<<a>>) : a \in GroupLeaves }
    \cup { GroupEl(<<a, b>>) : a \in GroupLeaves, b \in GroupLeaves }

TreeElements == { TextEl, InfoBoxEl, UnknownEl, NoTypeEl, NullElement } \cup Groups

ElementLists == UNION { [1..n -> TreeElements] : n \in 0..MaxElems }

InitTree ==
    /\ \E els \in ElementLists :
         course = << [type |-> "Slide", id |-> 1, title |-> "T", elements |-> els] >>
    /\ nav = NavAtInit(course)
    /\ variant = "renderer"
    /\ layout = LayoutAtRest
    /\ InitPage

NextTree == RenderSlide

SpecTree == InitTree /\ [][NextTree]_vars

---------------------------------------------------------------------------
(* One info-box trigger of any offsets in any layout *)

Offsets == (0 - MaxOff)..MaxOff

InfoBoxAt(x, y) == [type |-> "InfoBoxElement", title |-> "i", x |-> x, y |-> y]

PositionedInfoBoxes ==
    { InfoBoxAt(x, y) : x \in Offsets, y \in Offsets }
    \cup { [type |-> "InfoBoxElement", title |-> "i"] }

Layouts ==
    { [contLeft |-> c[1], contTop |-> c[2],
       aLeft |-> c[1] + a[1], aTop |-> c[2] + a[2],
       clientWidth |-> w, clientHeight |-> h,
       offsetWidth |-> b[1], offsetHeight |-> b[2]] :
        c \in { <<0, 0>>, <<1, 2>> },
        a \in { <<0, 0>>, <<1, MaxDim>>, <<MaxDim, 0>> },
        w \in 0..MaxDim, h \in 0..MaxDim,
        b \in { <<1, 1>>, <<2, 1>> } }

InitPos ==
    /\ \E ib \in PositionedInfoBoxes, anchored \in BOOLEAN :
         course = << [type |-> "Slide", id |-> 1, title |-> "P",
                      elements |-> IF anchored THEN << TextEl, ib >> ELSE << ib >>] >>
    /\ nav = NavAtInit(course)
    /\ variant = "renderer"
    /\ layout \in Layouts
    /\ InitPage

NextPos ==
    \/ RenderSlide
    \/ Reposition

SpecPos == InitPos /\ [][NextPos]_vars

---------------------------------------------------------------------------
(* Frames, resizes, loads of media, the modal *)

Doc == Document(container, modal.content)

\* the closures after their callbacks of one kind have run
Ran(ts, field) == [k \in DOMAIN ts |-> [ts[k] EXCEPT ![field] = FALSE]]

\* an animation frame: the callbacks given to requestAnimationFrame run, the
\* one of each trigger (applyPosition, then the recalculation) and the ones
\* that only recalculate
Frame ==
    /\ sec.raf \/ \E k \in DOMAIN triggers : triggers[k].raf
    /\ buttonStyle' = Positions({k \in DOMAIN triggers : triggers[k].raf}, Doc, layout)
    /\ triggers' = CollectTriggers(Ran(triggers, "raf"), Doc)
    /\ sec' = [atualizarAlturaDoContainer(sec, layout) EXCEPT !.raf = FALSE]
    /\ UNCHANGED <<course, variant, renderCount, slideAtual, container, titleEl,
                   subtitleEl, audioPlayer, videos, ytApi, waiters, layout, nav,
                   modal>>

\* the ResizeObserver callbacks of one rendering step: roSEC recalculates, the
\* observer of each trigger repositions and recalculates
DeliverResize ==
    /\ sec.ro \/ \E k \in DOMAIN triggers : triggers[k].notified
    /\ buttonStyle' = Positions({k \in DOMAIN triggers : triggers[k].notified},
                                Doc, layout)
    /\ triggers' = CollectTriggers(Ran(triggers, "notified"), Doc)
    /\ sec' = [atualizarAlturaDoContainer(sec, layout) EXCEPT !.ro = FALSE]
    /\ UNCHANGED <<course, variant, renderCount, slideAtual, container, titleEl,
                   subtitleEl, audioPlayer, videos, ytApi, waiters, layout, nav,
                   modal>>

\* the layouts the page goes through
BoxLayouts ==
    { LayoutAtRest,
      [LayoutAtRest EXCEPT !.aLeft = 1],
      [LayoutAtRest EXCEPT !.clientWidth = 1, !.clientHeight = 1, !.aTop = 1] }

\* the box of the container changes size: its observers are notified
ContainerResize ==
    /\ \E new \in BoxLayouts :
         /\ ContainerResized(layout, new)
         /\ layout' = new
    /\ triggers' = Notified(triggers, TRUE)
    /\ sec' = [sec EXCEPT !.ro = TRUE]
    /\ UNCHANGED <<course, variant, renderCount, slideAtual, container, titleEl,
                   subtitleEl, audioPlayer, videos, ytApi, waiters, buttonStyle,
                   nav, modal>>

\* the closures that observe anchor a (its key and its class) with a
\* connected ResizeObserver
ObservesAnchor(t, a) == t.ro /\ <<t.anchor, t.anchorCls>> = a

\* the box of an anchor that is in the document changes size: the observers
\* of the triggers that observe it are notified
AnchorResize ==
    /\ \E a \in {<<triggers[k].anchor, triggers[k].anchorCls>> : k \in DOMAIN triggers} :
         /\ AnchorIn(container, a[1], a[2])
         /\ triggers' = [k \in DOMAIN triggers |->
                           [triggers[k] EXCEPT
                              !.notified = @ \/ ObservesAnchor(triggers[k], a)]]
    /\ \E new \in BoxLayouts :
         /\ ~ContainerResized(layout, new)
         /\ layout' = new
    /\ UNCHANGED <<course, variant, renderCount, slideAtual, container, titleEl,
                   subtitleEl, audioPlayer, videos, ytApi, waiters, buttonStyle,
                   nav, sec, modal>>

\* a closure whose window listener has run: a button that is not connected
\* makes it remove itself and disconnect the ResizeObserver
onResize(t, connected) ==
    IF t.onResize /\ ~connected
    THEN [t EXCEPT !.onResize = FALSE, !.ro = FALSE, !.notified = FALSE]
    ELSE t

\* window fires resize: atualizarAlturaDoContainer and the onResize of every
\* trigger run; the observers are notified when the box of the container has
\* changed
Resized(new) ==
    /\ layout' = new
    /\ buttonStyle' = Positions({k \in DOMAIN triggers : triggers[k].onResize},
                                Doc, new)
    /\ triggers' =
         CollectTriggers(
            Notified([k \in DOMAIN triggers |->
                         onResize(triggers[k], isConnected(Doc, k))],
                     ContainerResized(layout, new)),
            Doc)
    /\ sec' = [atualizarAlturaDoContainer(sec, new) EXCEPT
                 !.ro = @ \/ ContainerResized(layout, new)]

WindowResize ==
    /\ \E new \in BoxLayouts : Resized(new)
    /\ UNCHANGED <<course, variant, renderCount, slideAtual, container, titleEl,
                   subtitleEl, audioPlayer, videos, ytApi, waiters, nav, modal>>

\* the closures whose once-listener on media element m has run
Listened(ts, m) == [k \in DOMAIN ts |-> [ts[k] EXCEPT !.media = @ \ {m}]]

\* media element m fires load (an image) or loadedmetadata (a video), the
\* layout becoming new: the listener criarImagem added to the image
\* recalculates, the onLoad of the triggers that listen repositions and
\* recalculates
MediaLoaded(m, new) ==
    /\ layout' = new
    /\ buttonStyle' = Positions({k \in DOMAIN triggers : m \in triggers[k].media},
                                Doc, new)
    /\ triggers' = Notified(Listened(triggers, m), ContainerResized(layout, new))
    /\ sec' = [(IF m.kind = "img" \/ \E k \in DOMAIN triggers : m \in triggers[k].media
                THEN atualizarAlturaDoContainer(sec, new) ELSE sec)
                 EXCEPT !.loaded = @ \cup {m},
                        !.ro = @ \/ ContainerResized(layout, new)]

ImageLoad ==
    /\ \E m \in MediaIn(container) \cup MediaIn(modal.content), new \in BoxLayouts :
         /\ m.kind = "img"
         /\ m \notin sec.loaded
         /\ MediaLoaded(m, new)
    /\ UNCHANGED <<course, variant, renderCount, slideAtual, container, titleEl,
                   subtitleEl, audioPlayer, videos, ytApi, waiters, nav, modal>>

VideoMetadata ==
    /\ \E m \in MediaIn(container), new \in BoxLayouts :
         /\ m.kind = "video"
         /\ m \notin sec.loaded
         /\ MediaLoaded(m, new)
    /\ UNCHANGED <<course, variant, renderCount, slideAtual, container, titleEl,
                   subtitleEl, audioPlayer, videos, ytApi, waiters, nav, modal>>

\* the GroupElement abrirModal makes of the data of an info box: elements and
\* the alignments as they are (absent when absent), mode || 'verticalGroup'
GroupElementData(infoBoxData) ==
    [f \in {"type", "mode"}
           \cup (DOMAIN infoBoxData
                   \cap {"elements", "verticalAlign", "horizontalAlign"}) |->
        IF f = "type" THEN "GroupElement"
        ELSE IF f = "mode" THEN FieldOr(infoBoxData, "mode", "verticalGroup")
        ELSE infoBoxData[f]]

\* a modal that keeps what the info box before left in it
ModalContentKept(infoBoxData, opens, path) ==
    AppendNode(modal.content,
               criarElemento(GroupElementData(infoBoxData), 0 - opens, path,
                             container))

\* modalContent after abrirModal: emptied, then the node of the group if any.
\* The nodes get the key of open number opens, below the path of the info box.
ModalContent(infoBoxData, opens, path) ==
    AppendNode(<<>>, criarElemento(GroupElementData(infoBoxData), 0 - opens, path,
                                   container))

\* abrirModal(infoBoxData)
abrirModal(infoBoxData, content) ==
    /\ modal' = [hidden |-> FALSE,
                 title |-> IF FieldOr(infoBoxData, "title", "") # ""
                           THEN infoBoxData.title ELSE "Informação",
                 content |-> content,
                 opens |-> modal.opens + 1]
    /\ MountedTriggers(Document(container, content), Triggers(content),
                       course[slideAtual].elements)

\* a click on a trigger that is in the document
ClickTrigger ==
    /\ modal.opens < MaxClicks
    /\ \E k \in DOMAIN triggers :
         /\ isConnected(Doc, k)
         /\ abrirModal(triggers[k].el,
                       ModalContent(triggers[k].el, modal.opens + 1, k[2]))
    /\ UNCHANGED <<course, variant, renderCount, slideAtual, container, titleEl,
                   subtitleEl, audioPlayer, videos, ytApi, waiters, layout, nav>>

\* fecharModal: the close button, the overlay, the Escape key
fecharModal ==
    /\ ~modal.hidden
    /\ modal' = [modal EXCEPT !.hidden = TRUE]
    /\ UNCHANGED <<course, variant, renderCount, slideAtual, container, titleEl,
                   subtitleEl, audioPlayer, videos, ytApi, waiters, layout,
                   buttonStyle, nav, triggers, sec>>

---------------------------------------------------------------------------
(* A slide with an info box after a group that holds an image and a video *)

ImageEl == [type |-> "ImageElement", source |-> "i.png"]

InnerInfoBox ==
    [type |-> "InfoBoxElement", title |-> "in", elements |-> << TextEl >>]

OuterInfoBox ==
    [type |-> "InfoBoxElement", title |-> "out", y |-> 1,
     mode |-> "horizontalGroup", horizontalAlign |-> "center",
     elements |-> << TextEl, InnerInfoBox >>]

BareInfoBox == [type |-> "InfoBoxElement"]

BoxSlide ==
    [type |-> "Slide", id |-> 1, title |-> "A",
     elements |-> << GroupEl(<< ImageEl, VideoEl(UrlFile) >>), OuterInfoBox >>]

InitBox ==
    /\ course = << BoxSlide >>
    /\ nav = NavAtInit(course)
    /\ variant = "renderer"
    /\ layout = LayoutAtRest
    /\ InitPage

NextBox ==
    \/ RenderSlide
    \/ ClickVideo
    \/ Frame
    \/ DeliverResize
    \/ ContainerResize
    \/ AnchorResize
    \/ WindowResize
    \/ ImageLoad
    \/ VideoMetadata

SpecBox == InitBox /\ [][NextBox]_vars

\* the browser goes on painting: the frame callbacks that were requested run,
\* the notifications of the ResizeObservers are delivered
SpecBoxFair == SpecBox /\ WF_vars(Frame) /\ WF_vars(DeliverResize)

---------------------------------------------------------------------------
(* The modal: a slide with an info box before any other node and an info box
   that holds another one *)

ModalSlide ==
    [type |-> "Slide", id |-> 1, title |-> "M",
     elements |-> << BareInfoBox, TextEl, OuterInfoBox >>]

InitModal ==
    /\ course = << ModalSlide >>
    /\ nav = NavAtInit(course)
    /\ variant = "renderer"
    /\ layout = LayoutAtRest
    /\ InitPage

NextModal ==
    \/ RenderSlide
    \/ ClickTrigger
    \/ fecharModal
    \/ Frame
    \/ ContainerResize
    \/ DeliverResize

SpecModal == InitModal /\ [][NextModal]_vars

---------------------------------------------------------------------------
(* An info box whose anchor is a video placeholder: the placeholder is
   replaced by its player when it is clicked *)

AnchorVideos == { UrlFile, UrlShort }

InitAnchor ==
    /\ \E url \in AnchorVideos :
         course = << [type |-> "Slide", id |-> 1, title |-> "V",
                      elements |-> << VideoEl(url), BareInfoBox >>] >>
    /\ nav = NavAtInit(course)
    /\ variant = "renderer"
    /\ layout = LayoutAtRest
    /\ InitPage

NextAnchor ==
    \/ RenderSlide
    \/ ClickVideo
    \/ ApiReady
    \/ Frame
    \/ DeliverResize
    \/ ContainerResize
    \/ AnchorResize
    \/ WindowResize

SpecAnchor == InitAnchor /\ [][NextAnchor]_vars

---------------------------------------------------------------------------
(* Two embedded videos on one slide, and the load of the IFrame API *)

InitApi ==
    /\ course = << [type |-> "Slide", id |-> 1, title |-> "V",
                    elements |-> << VideoEl(UrlShort), VideoEl(UrlWatch) >>] >>
    /\ nav = NavAtInit(course)
    /\ variant = "renderer"
    /\ layout = LayoutAtRest
    /\ InitPage

SpecApi == InitApi /\ [][Next]_vars

\* the script tag of the IFrame API is in the head and YT.Player is not
\* defined yet
ApiLoading == ytApi.scriptTags > 0 /\ ~ytApi.playerDefined

\* what a step of ApiReady does to window: YT.Player becomes defined
ApiArrives == ApiLoading /\ ytApi' = [ytApi EXCEPT !.playerDefined = TRUE]

\* the script of the IFrame API arrives: the browser runs it and calls
\* window.onYouTubeIframeAPIReady (the steps that define YT.Player are the
\* steps of ApiReady, see ApiArrivesIsApiReady)
SpecApiLoads == SpecApi /\ WF_ytApi(ApiArrives)

---------------------------------------------------------------------------
(* The page from its load: data.json is any list of at most MaxElems items,
   slides of ids 1..MaxId, groups of at most two slides, items of another type *)

SlideTitles == <<"N1", "N2", "N3", "N4", "N5">>

NavSlide(id) ==
    [type |-> "Slide", id |-> id, title |-> SlideTitles[id], elements |-> << TextEl >>]

NavSlides == { NavSlide(id) : id \in 1..MaxId }

SlideGroups ==
    { [type |-> "SlideGroup", title |-> "G"] }
    \cup { [type |-> "SlideGroup", title |-> "G", items |-> <<>>] }
    \cup { [type |-> "SlideGroup", title |-> "G", items |-> <<a>>] : a \in NavSlides }
    \cup { [type |-> "SlideGroup", title |-> "G", items |-> <<a, b>>] :
             a \in NavSlides, b \in NavSlides }

CourseItems == NavSlides \cup SlideGroups \cup { [type |-> "Quiz", title |-> "Q"] }

CourseFiles ==
    { [items |-> items] : items \in UNION { [1..n -> CourseItems] : n \in 0..MaxElems } }

\* parseInt of what follows "#/slide/" in the hash: 0 stands for NaN
Hashes == 0..(MaxId + 1)

\* data.json arrives
LoadOk ==
    /\ ~nav.loaded
    /\ ~nav.listening
    /\ \E data \in CourseFiles, slideIdFromHash \in Hashes :
         InitWith(data.items, achatarSlides(data.items), slideIdFromHash)

InitNav ==
    /\ course = <<>>
    /\ nav = NavAtLoad
    /\ variant = "renderer"
    /\ layout = LayoutAtRest
    /\ InitPage

NextNav ==
    \/ LoadOk
    \/ LoadFail
    \/ RenderSlide
    \/ ClickNext
    \/ ClickPrev

SpecNav == InitNav /\ [][NextNav]_vars


---------------------------------------------------------------------------
(* One embedded video and the controls of its player *)

UrlEmbed == Https \o <<"w","w","w",".">> \o YoutubeCom
            \o <<"/","e","m","b","e","d","/","q","w","e">>

PlayerUrls == { UrlShort, UrlWatch, UrlEmbed }

InitPlayer ==
    /\ \E url \in PlayerUrls : course = << VideoSlide(url) >>
    /\ nav = NavAtInit(course)
    /\ variant = "renderer"
    /\ layout = LayoutAtRest
    /\ InitPage

\* the slide is shown and stays: what a change of slide does to a player is
\* the matter of the main specification
RenderOnce == renderCount = 0 /\ RenderSlide

NextPlayer ==
    \/ RenderOnce
    \/ ClickVideo
    \/ ApiReady
    \/ PlayerReady
    \/ PollTick
    \/ TimeUpdate
    \/ StateChange
    \/ ClickPlay
    \/ ClickMute
    \/ SeekInput

SpecPlayer == InitPlayer /\ [][NextPlayer]_vars

---------------------------------------------------------------------------
(* One slide of one static element: a list of any text of at most MaxLen
   letters, or a grid of at most MaxRows rows *)

Texts == UNION { [1..n -> {"a", " ", "\n"}] : n \in 0..MaxLen }

WithFields(base, fs) ==
    [f \in DOMAIN base \cup DOMAIN fs |-> IF f \in DOMAIN fs THEN fs[f] ELSE base[f]]

ListElements ==
    { WithFields(WithFields([type |-> "ListElement", text |-> t], st), si) :
        t \in Texts,
        st \in { <<>>, [styleName |-> "numberList"], [styleName |-> "bulletList"] },
        si \in { <<>>, [startIndex |-> 0], [startIndex |-> 1], [startIndex |-> 2],
                 [startIndex |-> 5] } }

GridRows == { << <<"a">>, <<" ", "b">> >>, << <<"c", " ">> >> }

GridContents == UNION { [1..n -> GridRows] : n \in 0..MaxRows }

GridElements ==
    { WithFields(WithFields(WithFields(WithFields([type |-> "GridElement"], c), h), a), fc) :
        c \in { <<>> } \cup { [content |-> x] : x \in GridContents },
        h \in { <<>>, [isFirstRowHeader |-> TRUE], [isFirstRowHeader |-> FALSE] },
        a \in { <<>>, [alternateRowColor |-> TRUE] },
        fc \in { <<>>, [featureColumn |-> 0], [featureColumn |-> 1] } }

InitStatic ==
    /\ \E el \in ListElements \cup GridElements :
         course = << [type |-> "Slide", id |-> 1, title |-> "S", elements |-> << el >>] >>
    /\ nav = NavAtInit(course)
    /\ variant = "renderer"
    /\ layout = LayoutAtRest
    /\ InitPage

NextStatic == RenderSlide

SpecStatic == InitStatic /\ [][NextStatic]_vars

---------------------------------------------------------------------------
(* Properties of the video activation *)

\* the click handler of the closure k is suspended at the await
Waiting(k) == \E i \in 1..Len(waiters) : waiters[i].key = k

\* C1: every node mounted in the slide container was built by the most recent
\* render; an activation begun on an earlier slide that completes after a
\* later render mounts nothing into the later slide.
C1_MountedNodesAreCurrent ==
    \A n \in NodesOf(container) : n.key[1] = renderCount

\* an activation begun on an earlier slide has completed after a later render
C1_LateCompletion ==
    /\ Len(container) > 0
    /\ \E k \in DOMAIN videos :
         /\ k[1] < renderCount
         /\ videos[k].handlerRuns = 1
         /\ videos[k].yt = 1
         /\ ~videos[k].everMounted

\* C2: once the wrapper of an embedded player is no longer in the document,
\* the polling interval of that player is cleared (not running) and its
\* mutation observer is disconnected, in whatever order the player-ready, the
\* slide change and the mutation callbacks occur.
C2_NoPollingAfterRemoval ==
    \A k \in DOMAIN videos :
        (videos[k].yt > 0 /\ videos[k].everMounted /\ ~ShellIn(container, k))
            => (videos[k].timer # "running" /\ ~videos[k].mo)

\* C3: the activation handler of a placeholder runs at most once, however many
\* clicks it receives, and at most one player is ever built for it.
C3_ActivatedAtMostOnce ==
    \A k \in DOMAIN videos :
        /\ videos[k].handlerRuns <= 1
        /\ videos[k].html5 + videos[k].yt <= 1

\* a placeholder clicked twice while its handler awaited the API, and then one player
C3_ClickedTwice ==
    \E k \in DOMAIN videos :
        /\ videos[k].clicks >= 2
        /\ videos[k].handlerRuns = 1
        /\ videos[k].yt = 1

\* a player has been built by the closure k
Activated(k) == videos[k].html5 + videos[k].yt > 0

\* in every state: a closure has built players of one kind only, placeholder
\* and shell are never both mounted, and once a player is built the
\* placeholder is not mounted
ExactlyOneSubState ==
    \A k \in DOMAIN videos :
        /\ ~(videos[k].html5 > 0 /\ videos[k].yt > 0)
        /\ ~(PlaceholderIn(container, k) /\ ShellIn(container, k))
        /\ Activated(k) => ~PlaceholderIn(container, k)
        /\ ShellIn(container, k) => Activated(k)

\* in every step: a placeholder that is not mounted is not mounted afterwards,
\* and a closure that has built a player keeps it
NoWayBack ==
    \A k \in DOMAIN videos :
        /\ ~PlaceholderIn(container, k) => ~PlaceholderIn(container', k)
        /\ (Activated(k) /\ k \in DOMAIN videos') =>
              /\ videos'[k].html5 = videos[k].html5
              /\ videos'[k].yt = videos[k].yt

\* C4: a video element moves only from PLACEHOLDER to ACTIVE: once the
\* placeholder has been replaced by a player the element is in exactly one of
\* the two active sub-states, and its placeholder is never mounted again
\* (a re-render builds new placeholders).
C4_PlaceholderToActiveOnly == []ExactlyOneSubState /\ [][NoWayBack]_vars

\* an embedded player is mounted and has become ready
C4_ActiveAndReady ==
    \E k \in DOMAIN videos :
        /\ ShellIn(container, k)
        /\ videos[k].yt = 1
        /\ videos[k].ready

\* C5: the API script is injected at most once per page; the activations that
\* are pending all await the one shared promise; once the API has signalled
\* ready none is left waiting, and each embedded activation whose handler ran
\* has built its player.
C5_ApiLoadedOnce ==
    /\ ytApi.scriptTags <= 1
    /\ \A i \in 1..Len(waiters) : waiters[i].promise = ytApi.promise
    /\ ytApi.playerDefined =>
          /\ waiters = <<>>
          /\ \A k \in DOMAIN videos :
                (/\ videos[k].handlerRuns = 1
                 /\ ~isDirectMediaUrl(videos[k].url)
                 /\ videos[k].isYT
                 /\ Truthy(videos[k].videoID)) => videos[k].yt = 1

\* two activations are pending on one injected script
C5_TwoPending ==
    /\ Len(waiters) >= 2
    /\ ytApi.scriptTags = 1

---------------------------------------------------------------------------
(* Properties of the classification of video URLs *)

\* the URL ends in one of the media extensions, in any letter case
EndsInMediaExtension(url) ==
    \E ext \in MediaExtensions :
        /\ Len(url) >= Len(ext)
        /\ ToLower(SubSeq(url, Len(url) - Len(ext) + 1, Len(url))) = ext

\* the host of a parsed URL is the provider's
OnProviderDomain(u) ==
    u.ok /\ (u.hostname = YoutuBe \/ Includes(u.hostname, YoutubeCom))

\* a non-empty segment follows the first /embed/ of the path
HasEmbedSegment(path) ==
    /\ IndexOf(path, EmbedSlash) # 0
    /\ IndexOf(path, EmbedSlash) + Len(EmbedSlash) <= Len(path)
    /\ path[IndexOf(path, EmbedSlash) + Len(EmbedSlash)] \notin {"/", "?", "#"}

\* an identifier can be extracted from a parsed provider URL
HasIdentifier(u) ==
    IF u.hostname = YoutuBe THEN Len(u.pathname) > 1
    ELSE Truthy(SearchParamsGet(u.query, <<"v">>)) \/ HasEmbedSegment(u.pathname)

\* the URL is on the provider domain and an identifier can be extracted
Embeddable(u) == OnProviderDomain(u) /\ HasIdentifier(u)

\* C6: an activation takes exactly one of three outcomes, as a function of the
\* URL: direct media if the URL ends in a media extension; otherwise embedded
\* if and only if the URL is on the provider domain and an identifier can be
\* extracted; otherwise the fallback, which opens the URL and creates no
\* player, no timer and no observer and does not load the API.
C6_OutcomeByUrl ==
    \A k \in DOMAIN videos :
        videos[k].handlerRuns > 0 =>
            IF EndsInMediaExtension(videos[k].url)
            THEN /\ videos[k].html5 = 1
                 /\ videos[k].yt = 0
                 /\ videos[k].opened = 0
                 /\ ~Waiting(k)
                 /\ ytApi.scriptTags = 0
            ELSE IF Embeddable(NewURL(videos[k].url))
            THEN /\ videos[k].html5 = 0
                 /\ videos[k].opened = 0
                 /\ videos[k].yt = 1 \/ Waiting(k)
            ELSE /\ videos[k].opened = 1
                 /\ videos[k].html5 = 0
                 /\ videos[k].yt = 0
                 /\ videos[k].timer = "null"
                 /\ ~videos[k].mo
                 /\ ~Waiting(k)
                 /\ ytApi.scriptTags = 0
                 /\ PlaceholderIn(container, k)

\* a provider URL from which no identifier is extracted has taken the fallback
C6_ProviderUrlFellBack ==
    \E k \in DOMAIN videos :
        /\ videos[k].isYT
        /\ videos[k].opened = 1

\* the identifier the three URL forms name: the one path segment of a short
\* link, the v parameter of a watch URL, the segment after /embed/ of an embed
\* URL that has no v parameter (Null for any other URL)
NamedIdentifier(u) ==
    IF ~OnProviderDomain(u) THEN Null
    ELSE IF u.hostname = YoutuBe
         THEN IF Len(u.pathname) > 1 /\ ~Includes(SliceFrom(u.pathname, 1), <<"/">>)
              THEN SliceFrom(u.pathname, 1) ELSE Null
    ELSE IF Truthy(SearchParamsGet(u.query, <<"v">>))
         THEN SearchParamsGet(u.query, <<"v">>)
    ELSE IF SearchParamsGet(u.query, <<"v">>) = Null /\ HasEmbedSegment(u.pathname)
         THEN AfterEmbed(u.pathname)
    ELSE Null

\* the URL of the video element of the slide shown
ShownVideoUrl == course[slideAtual].elements[1].video

\* C7: the identifier extracted from a provider URL is the path segment of a
\* short link, the value of v of a watch URL, or the segment after /embed/ of
\* an embed URL; a string that does not parse as a URL yields no identifier
\* and its activation falls back.
C7_IdentifierByUrlForm ==
    renderCount > 0 =>
        /\ NamedIdentifier(NewURL(ShownVideoUrl)) # Null =>
              \E k \in DOMAIN videos :
                  /\ k[1] = renderCount
                  /\ videos[k].videoID = NamedIdentifier(NewURL(ShownVideoUrl))
        /\ \A k \in DOMAIN videos :
              ~NewURL(videos[k].url).ok =>
                  /\ ~Truthy(videos[k].videoID)
                  /\ videos[k].handlerRuns > 0 => videos[k].opened = 1

---------------------------------------------------------------------------
(* Properties of the dispatcher and of the anchor of an info-box trigger *)

\* the element is there, has a type, and the type is one of the nine
IsKnownElement(el) ==
    /\ ~HasField(el, "isNull")
    /\ HasField(el, "type")
    /\ el.type \in KnownTypes

\* the indexes of the elements of els that have a known type, in order
KnownIndexes(els) ==
    SelectSeq([i \in 1..Len(els) |-> i], LAMBDA i : IsKnownElement(els[i]))

\* the last index of the path of each node of a list of siblings
LastIndexes(siblings) ==
    [j \in 1..Len(siblings) |-> siblings[j].key[2][Len(siblings[j].key[2])]]

\* the elements of a group element (none when it has no elements array)
ElementsOf(el) == FieldOr(el, "elements", <<>>)

\* C8: no node is built for an element that is missing, has no type or has an
\* unknown type, and the elements beside it are still built: the children of
\* the container, and of every group, are the nodes of exactly the elements of
\* a known type, in order.
C8_SiblingsStillBuilt ==
    renderCount > 0 =>
        /\ LastIndexes(container) = KnownIndexes(course[slideAtual].elements)
        /\ \A j \in 1..Len(container) :
              HasClass(container[j], "group-container") =>
                  LastIndexes(container[j].children) =
                      KnownIndexes(ElementsOf(
                          course[slideAtual].elements[container[j].key[2][1]]))

\* a missing element before a group whose first element has an unknown type
\* and whose second element was built
C8_InvalidBeforeKnown ==
    /\ renderCount > 0
    /\ Len(course[slideAtual].elements) = 2
    /\ ~IsKnownElement(course[slideAtual].elements[1])
    /\ Len(container) = 1
    /\ HasClass(container[1], "group-container")
    /\ KnownIndexes(ElementsOf(course[slideAtual].elements[2])) = <<2>>
    /\ Len(container[1].children) = 1

\* the nearest node before position i + 1 of a list of siblings that is not an
\* info-box trigger (NoKey when there is none)
RECURSIVE PrecedingSibling(_, _)
PrecedingSibling(siblings, i) ==
    IF i = 0 THEN NoKey
    ELSE IF ~HasClass(siblings[i], "infobox-trigger") THEN siblings[i].key
    ELSE PrecedingSibling(siblings, i - 1)

\* every trigger of a list of siblings, and below it, has that anchor
RECURSIVE AnchoredToSiblings(_)
AnchoredToSiblings(siblings) ==
    \A i \in 1..Len(siblings) :
        /\ HasClass(siblings[i], "infobox-trigger") =>
              siblings[i].anchor = PrecedingSibling(siblings, i - 1)
        /\ AnchoredToSiblings(siblings[i].children)

\* C9: the anchor of an info-box trigger is the rendered node of the nearest
\* preceding sibling of its element that is not itself a trigger, for a
\* trigger directly in the slide and for one nested in a group; with no such
\* sibling the trigger has no anchor (container mode).
C9_AnchorIsPrecedingSibling == AnchoredToSiblings(container)

---------------------------------------------------------------------------
(* Properties of the position of an info-box trigger *)

\* C10 as stated: after a reposition, left is within [0, clientWidth -
\* offsetWidth] and top within [0, clientHeight - offsetHeight], for all
\* offsets and all sizes.
C10_WithinContainer ==
    \A k \in DOMAIN buttonStyle :
        buttonStyle[k].set =>
            /\ 0 <= buttonStyle[k].left
            /\ buttonStyle[k].left <= layout.clientWidth - layout.offsetWidth
            /\ 0 <= buttonStyle[k].top
            /\ buttonStyle[k].top <= layout.clientHeight - layout.offsetHeight

\* C10 amended: after a reposition, left is within [0, max(0, clientWidth -
\* offsetWidth)] and top within [0, max(0, clientHeight - offsetHeight)]: the
\* stated interval when the container is at least as large as the trigger,
\* and 0 when it is smaller.
C10_WithinContainerOrAtOrigin ==
    \A k \in DOMAIN buttonStyle :
        buttonStyle[k].set =>
            /\ 0 <= buttonStyle[k].left
            /\ buttonStyle[k].left <= Max(0, layout.clientWidth - layout.offsetWidth)
            /\ 0 <= buttonStyle[k].top
            /\ buttonStyle[k].top <= Max(0, layout.clientHeight - layout.offsetHeight)

\* a trigger repositioned in a container narrower than the trigger
C10_NarrowContainer ==
    \E k \in DOMAIN buttonStyle :
        /\ buttonStyle[k].set
        /\ layout.clientWidth < layout.offsetWidth
        /\ buttonStyle[k].left = 0

\* the offset an element declares on an axis (0 when it declares none)
DeclaredOffset(el, axis) == IF axis \in DOMAIN el THEN el[axis] ELSE 0

\* the position named for a trigger on an axis before the clamp: the offset,
\* added to the place of the anchor in the container when the trigger has one
NamedPosition(button, el, axis, anchorAt, containerAt) ==
    IF button.anchor # NoKey
    THEN (anchorAt - containerAt) + DeclaredOffset(el, axis)
    ELSE DeclaredOffset(el, axis)

---------------------------------------------------------------------------
(* Order of the children *)

\* the indexes of the elements of els for which criarElemento returns a node,
\* in the order in which els declares them
ProducedIndexes(els) ==
    SelectSeq([i \in 1..Len(els) |-> i],
              LAMBDA i : IsNode(criarElemento(els[i], 0, <<i>>, <<>>)))

\* children are the nodes built at render gen for the elements of els that
\* produced one, below path, one after the other
InDeclaredOrder(children, els, gen, path) ==
    /\ Len(children) = Len(ProducedIndexes(els))
    /\ \A j \in 1..Len(children) :
          children[j].key = <<gen, path \o <<ProducedIndexes(els)[j]>>>>

\* C17: after renderSlide(slide) the children of the container are, in order,
\* the nodes of the elements of slide.elements that produced a node, in the
\* order in which they are declared; the children of the node of a
\* GroupElement are so with respect to the elements of the group.
C17_ChildrenInDeclaredOrder ==
    renderCount > 0 =>
        /\ InDeclaredOrder(container, FieldOr(course[slideAtual], "elements", <<>>),
                           renderCount, <<>>)
        /\ \A n \in NodesOf(container) :
              HasClass(n, "group-container") =>
                  InDeclaredOrder(n.children,
                                  ElementsOf(ElementAt(course[slideAtual].elements,
                                                       n.key[2])),
                                  renderCount, n.key[2])

\* a node, then a group of two nodes
C17_TwoThenTwo ==
    /\ renderCount > 0
    /\ Len(container) = 2
    /\ HasClass(container[2], "group-container")
    /\ Len(container[2].children) = 2
    /\ container[2].children[2].key = <<renderCount, <<2, 2>>>>

---------------------------------------------------------------------------
(* The modal of an info box *)

\* no node of the slide container was built for an element below an info box
NothingBelowInfoBox ==
    \A n \in NodesOf(container) :
        /\ HasClass(n, "infobox-trigger") => n.children = <<>>
        /\ \A i \in 1..(Len(n.key[2]) - 1) :
              ElementAt(course[slideAtual].elements, SubSeq(n.key[2], 1, i)).type
                  # "InfoBoxElement"

\* the direction and the alignments a group of these fields is laid out with
DirectionOf(el) ==
    IF HasField(el, "mode") /\ el.mode = "horizontalGroup" THEN "row" ELSE "column"

JustifyOf(el) ==
    IF ~HasField(el, "horizontalAlign") THEN "flex-start"
    ELSE IF el.horizontalAlign = "center" THEN "center"
    ELSE IF el.horizontalAlign = "right" THEN "flex-end"
    ELSE "flex-start"

AlignOf(el) ==
    IF ~HasField(el, "verticalAlign") THEN "flex-start"
    ELSE IF el.verticalAlign = "middle" THEN "center"
    ELSE IF el.verticalAlign = "bottom" THEN "flex-end"
    ELSE "flex-start"

\* the modal holds one group, built at the last open for info box el, laid out
\* as el says, whose children are the nodes of the elements of el
ModalShows(el) ==
    /\ el.type = "InfoBoxElement"
    /\ HasField(el, "title") => modal.title = el.title
    /\ Len(modal.content) = 1
    /\ modal.content[1].key[1] = 0 - modal.opens
    /\ HasClass(modal.content[1], "group-container")
    /\ modal.content[1].style.flexDirection = DirectionOf(el)
    /\ modal.content[1].style.justifyContent = JustifyOf(el)
    /\ modal.content[1].style.alignItems = AlignOf(el)
    /\ InDeclaredOrder(modal.content[1].children, ElementsOf(el),
                       0 - modal.opens, modal.content[1].key[2])
    /\ \A n \in Triggers(modal.content) : n.children = <<>>

ModalInStep ==
    /\ renderCount > 0 => NothingBelowInfoBox
    /\ modal.opens = 0 => modal.content = <<>> /\ modal.hidden
    /\ modal.opens > 0 =>
          /\ modal.content # <<>>
          /\ ModalShows(ElementAt(course[slideAtual].elements,
                                  modal.content[1].key[2]))

\* C14: rendering a slide builds no node for the elements nested in an
\* InfoBoxElement, they are built only by a click on its trigger; each click
\* makes the modal visible, its content being the rendering of a GroupElement
\* made of the elements, the mode (vertical when absent) and the alignments of
\* that element, in place of what an earlier info box left, and its title the
\* title of that element.
C14_ModalShowsInfoBox ==
    []ModalInStep /\ [][modal'.opens # modal.opens => ~modal'.hidden]_vars

\* the second info box opened, a horizontal one with two children, one of them
\* the trigger of the info box inside it
C14_SecondInfoBoxOpened ==
    /\ modal.opens = 2
    /\ ~modal.hidden
    /\ modal.title = "out"
    /\ modal.content[1].style.flexDirection = "row"
    /\ Len(modal.content[1].children) = 2
    /\ HasClass(modal.content[1].children[2], "infobox-trigger")

---------------------------------------------------------------------------
(* The observers and the listeners of an info-box trigger *)

\* the closures whose button is not in the document any more
RemovedTriggers == { k \in DOMAIN triggers : ~isConnected(Doc, k) }

\* C12: once an info-box trigger is out of the document its ResizeObserver is
\* disconnected (no notification of it is left), its window resize listener is
\* removed and its MutationObserver is disconnected, and no callback of it
\* writes a position afterwards: only buttons that are in the document have
\* one; a trigger that is in the document has exactly one MutationObserver.
C12_RemovedTriggerIsTornDown ==
    /\ \A k \in RemovedTriggers :
          /\ ~triggers[k].ro
          /\ ~triggers[k].notified
          /\ ~triggers[k].onResize
          /\ triggers[k].mo = 0
    /\ \A k \in DOMAIN buttonStyle : isConnected(Doc, k)
    /\ \A k \in DOMAIN triggers \ RemovedTriggers : triggers[k].mo = 1

\* a trigger that was positioned has left the document with its frame
\* callback still to run, and the trigger built after it is in place
C12_CallbackLeftBehind ==
    /\ renderCount = 2
    /\ \E k \in RemovedTriggers : triggers[k].raf /\ k[1] = 1
    /\ \E k \in DOMAIN buttonStyle : k[1] = 2

\* the position applyPosition gives trigger k in the state a step leads to
PositionAfter(k) ==
    applyPosition(triggers[k].el,
                  AnchorIn(container', triggers[k].anchor, triggers[k].anchorCls),
                  layout')

\* trigger k is in the document before and after the step
StaysMounted(k) ==
    /\ isConnected(Doc, k)
    /\ k \in DOMAIN triggers'
    /\ k \in DOMAIN buttonStyle'

\* after the step the position of k and the height signal are recomputed
Recomputed(k) ==
    /\ buttonStyle'[k] = PositionAfter(k)
    /\ sec'.h = layout'.clientHeight

\* after the step they are recomputed, or a notification or a frame callback
\* that will do it is pending
RecomputedOrPending(k) ==
    \/ Recomputed(k)
    \/ triggers'[k].notified /\ sec'.ro
    \/ triggers'[k].raf

\* media element m is below the anchor of trigger k in the slide container
InAnchorSubtree(m, k) ==
    /\ AnchorIn(container, triggers[k].anchor, triggers[k].anchorCls)
    /\ m \in MediaBelow(FindNode(container, triggers[k].anchor))

ResizesReposition ==
    \A k \in DOMAIN triggers :
        StaysMounted(k) =>
            /\ ContainerResized(layout, layout') => RecomputedOrPending(k)
            /\ (AnchorResize
                  /\ AnchorIn(container, triggers[k].anchor, triggers[k].anchorCls)
                  /\ layout' # layout) => triggers'[k].notified
            /\ (triggers[k].notified /\ ~triggers'[k].notified) => Recomputed(k)
            /\ WindowResize => Recomputed(k)

ImageLoadsReposition ==
    \A k \in DOMAIN triggers :
        StaysMounted(k) =>
            \A m \in sec'.loaded \ sec.loaded :
                (m.kind = "img" /\ InAnchorSubtree(m, k)) => Recomputed(k)

VideoLoadsReposition ==
    \A k \in DOMAIN triggers :
        StaysMounted(k) =>
            \A m \in sec'.loaded \ sec.loaded :
                (m.kind = "video" /\ InAnchorSubtree(m, k)) =>
                    RecomputedOrPending(k)

\* C13: while an info-box trigger is mounted, a resize of the container, a
\* resize of its anchor, a window resize, and the first load of an image or
\* the first metadata load of a video below its anchor each make its position
\* be recomputed and the height signal be recalculated.
C13_EventsReposition ==
    [][ResizesReposition /\ ImageLoadsReposition /\ VideoLoadsReposition]_vars

\* what of C13 holds: the resizes and the loads of the images
C13_ResizesAndImagesReposition ==
    [][ResizesReposition /\ ImageLoadsReposition]_vars

---------------------------------------------------------------------------
(* The height signal *)

\* the signal is the interior height of the container
SignalCurrent == sec.h = layout.clientHeight

\* a recalculation is on its way: in a frame callback or in a notification of
\* the ResizeObserver of the container
RecalculationPending == sec.raf \/ sec.ro

\* a step that writes the signal writes the height the container has then
WritesHeightRead == sec'.h # sec.h => sec'.h = layout'.clientHeight

\* a slide render leaves a recalculation to the next frame
RenderRecalculates == renderCount' # renderCount => sec'.raf

\* C15: the height signal holds the interior height of the container as read
\* at its latest recalculation; it is set before the first slide is rendered;
\* every window resize, container resize and slide render is followed by a
\* recalculation, so that the signal is the current height of the container
\* whenever no recalculation is pending, and is so again and again.
C15_SignalFollowsContainer ==
    /\ [](renderCount = 0 => sec.h \in 0..(MaxDim + 1))
    /\ [](SignalCurrent \/ RecalculationPending)
    /\ [][WritesHeightRead /\ RenderRecalculates]_vars
    /\ (sec.raf ~> ~sec.raf)
    /\ (sec.ro ~> ~sec.ro)
    /\ []<>SignalCurrent

\* the container has shrunk after a render and the signal has followed
C15_FollowedAResize ==
    /\ renderCount > 0
    /\ layout.clientHeight = 1
    /\ sec.h = 1
    /\ ~RecalculationPending

\* a text or list node, whose size is final when it is inserted
IsStatic(n) == HasClass(n, "text-element") \/ HasClass(n, "list-element")

InsertsStatic ==
    \/ renderCount' # renderCount /\ \E n \in NodesOf(container') : IsStatic(n)
    \/ modal'.opens # modal.opens /\ \E n \in NodesOf(modal'.content) : IsStatic(n)

---------------------------------------------------------------------------
(* Navigation *)

\* a slide is on display
Displayed == nav.loaded /\ Len(course) >= 1

NavigationInStep ==
    /\ nav.slideAtualIndex \in 0..(Len(course) - 1)
    /\ slideAtual = nav.slideAtualIndex + 1
    /\ titleEl = course[nav.slideAtualIndex + 1].title
    /\ container = RenderedNodes(course[nav.slideAtualIndex + 1], renderCount)
    /\ nav.btnAnterior.disabled <=> nav.slideAtualIndex = 0
    /\ nav.btnProximo.disabled <=> nav.slideAtualIndex = Len(course) - 1

EndsStay ==
    /\ (ClickNext /\ Displayed /\ nav.slideAtualIndex = Len(course) - 1)
          => UNCHANGED vars
    /\ (ClickPrev /\ Displayed /\ nav.slideAtualIndex = 0) => UNCHANGED vars

\* C18: once a course of N >= 1 slides is loaded, whatever is clicked, the
\* current index is within 0..N-1, the slide rendered is the one at that index
\* of the flattened list, "previous" is disabled exactly at index 0 and "next"
\* exactly at index N-1; a "next" at the last slide and a "previous" at the
\* first one change nothing.
C18_NavigationInStep ==
    [](Displayed => NavigationInStep) /\ [][EndsStay]_vars

C18_MovedToLastSlide ==
    /\ Displayed
    /\ renderCount = 2
    /\ Len(course) >= 3
    /\ nav.slideAtualIndex = Len(course) - 1
    /\ nav.btnProximo.disabled
    /\ ~nav.btnAnterior.disabled

UniqueIds ==
    \A i, j \in 1..Len(course) : course[i].id = course[j].id => i = j

ActiveItems == { i \in 1..Len(nav.menu) : nav.menu[i].active }

\* C19: on a course whose slide ids are unique, whenever a slide is on display
\* exactly one item of the menu carries the active marker, and its id is the
\* id of the slide on display.
C19_OneActiveItem ==
    (Displayed /\ UniqueIds) =>
        /\ Cardinality(ActiveItems) = 1
        /\ \A i \in ActiveItems : nav.menu[i].id = course[slideAtual].id

C19_MarkerMoved ==
    /\ Displayed
    /\ UniqueIds
    /\ renderCount = 2
    /\ nav.hash # nav.menu[1].id
    /\ ActiveItems = { nav.slideAtualIndex + 1 }
    /\ nav.slideAtualIndex > 0

\* init() has ended without a course
LoadFailed == nav.listening /\ ~nav.loaded

\* C20: when the load of the course data fails the user is notified, no slide
\* is rendered, at startup or by a later click on "next", "previous" or the
\* menu, and the current index keeps its initial value.
C20_FailedLoadRendersNothing ==
    LoadFailed =>
        /\ nav.alerts = 1
        /\ renderCount = 0
        /\ container = <<>>
        /\ titleEl = ""
        /\ nav.menu = <<>>
        /\ nav.slideAtualIndex = -1

C20_LoadHasFailed == LoadFailed /\ nav.alerts = 1 /\ ENABLED ClickNext

---------------------------------------------------------------------------
(* Properties of the list and of the grid *)

\* the element the slide shown holds, and the node built for it
ShownElement == course[slideAtual].elements[1]
ShownNode == container[1]

ListShown == renderCount > 0 /\ ShownElement.type = "ListElement"
GridShown == renderCount > 0 /\ ShownElement.type = "GridElement"

TextOf(el) == FieldOr(el, "text", <<>>)

\* textContent of the children of a node, in order
ItemTexts(n) == [i \in 1..Len(n.children) |-> n.children[i].text]

\* the lines of a text that have a letter at all
NonEmptyLines(text) == SelectSeq(Split(text, <<>>), LAMBDA l : l # <<>>)

\* the lines of a text that have a letter that is not white space
NonBlankLines(text) ==
    SelectSeq(Split(text, <<>>), LAMBDA l : \E i \in 1..Len(l) : l[i] \notin WhiteSpace)

IsOrdered(n) == n.tag = "ol"

\* the list is ordered exactly when styleName is numberList, and its
\* numbering begins at startIndex when it is ordered and startIndex > 1, at 1
\* otherwise
OrderedAsDeclared ==
    /\ ShownNode.tag \in {"ol", "ul"}
    /\ IsOrdered(ShownNode) <=> (HasField(ShownElement, "styleName")
                                   /\ ShownElement.styleName = "numberList")
    /\ ShownNode.start =
         IF IsOrdered(ShownNode) /\ HasField(ShownElement, "startIndex")
              /\ ShownElement.startIndex > 1
         THEN ShownElement.startIndex ELSE 1

\* C21 (as stated): for every ListElement the rendered list has one item per
\* non-empty line of the text, in order; it is ordered exactly when styleName
\* is numberList; when it is ordered and startIndex > 1 its numbering begins
\* at startIndex, otherwise at 1.
C21_ItemPerNonEmptyLine ==
    ListShown =>
        /\ ItemTexts(ShownNode) = NonEmptyLines(TextOf(ShownElement))
        /\ OrderedAsDeclared

\* C21 (amended): the rendered list has one item per line of the text that is
\* not blank (a line of white space only is dropped like an empty one), in
\* order and with the text of the line as it is; it is ordered exactly when
\* styleName is numberList; when it is ordered and startIndex > 1 its
\* numbering begins at startIndex, otherwise at 1.
C21_ItemPerNonBlankLine ==
    ListShown =>
        /\ ItemTexts(ShownNode) = NonBlankLines(TextOf(ShownElement))
        /\ OrderedAsDeclared

\* an ordered list that begins at 5 is shown, one line of it kept as an item
\* and a line of white space dropped
C21_BlankLineDropped ==
    /\ ListShown
    /\ IsOrdered(ShownNode)
    /\ ShownNode.start = 5
    /\ Len(ShownNode.children) = 1
    /\ Len(NonEmptyLines(TextOf(ShownElement))) = 2

ContentOf(el) == FieldOr(el, "content", <<>>)

HeaderDeclared(el) ==
    HasField(el, "isFirstRowHeader") /\ el.isFirstRowHeader /\ Len(ContentOf(el)) > 0

\* the rows of content that are to be body rows
BodyRowsOf(el) ==
    IF HeaderDeclared(el) THEN Tail(ContentOf(el)) ELSE ContentOf(el)

\* the tr elements of the header (at most one) and of the body of a table
HeadRows(table) ==
    IF Len(table.children) = 2 THEN table.children[1].children ELSE <<>>
BodyRows(table) == table.children[Len(table.children)].children

\* a cell carries the feature marker exactly when its column index, counted
\* from 0, is featureColumn
FeatureMarked(tr, el) ==
    \A c \in 1..Len(tr.children) :
        HasClass(tr.children[c], "feature-column")
            <=> (HasField(el, "featureColumn") /\ el.featureColumn = c - 1)

\* the cells of a tr are those of a row of content, of the tag given
CellsOfRow(tr, row, tag) ==
    /\ Len(tr.children) = Len(row)
    /\ \A c \in 1..Len(row) :
         /\ tr.children[c].tag = tag
         /\ \E lead \in 0..Len(row[c]), trail \in 0..Len(row[c]) :
              /\ lead + Len(tr.children[c].text) + trail = Len(row[c])
              /\ SubSeq(row[c], lead + 1, Len(row[c]) - trail) = tr.children[c].text

\* C22: for every GridElement, when isFirstRowHeader is set and there is at
\* least one row, row 0 is the header and the remaining rows the body,
\* otherwise all rows are body; a body row carries the alternate-row marker
\* exactly when alternateRowColor is set and its 0-based index among body
\* rows is odd; a cell carries the feature marker exactly when its column
\* index equals featureColumn, in header and body alike.
C22_GridAsDeclared ==
    GridShown =>
        /\ ShownNode.tag = "table"
        /\ ShownNode.children[Len(ShownNode.children)].tag = "tbody"
        /\ IF HeaderDeclared(ShownElement)
           THEN /\ Len(ShownNode.children) = 2
                /\ ShownNode.children[1].tag = "thead"
                /\ Len(HeadRows(ShownNode)) = 1
                /\ CellsOfRow(HeadRows(ShownNode)[1], ContentOf(ShownElement)[1], "th")
                /\ FeatureMarked(HeadRows(ShownNode)[1], ShownElement)
           ELSE Len(ShownNode.children) = 1
        /\ Len(BodyRows(ShownNode)) = Len(BodyRowsOf(ShownElement))
        /\ \A r \in 1..Len(BodyRows(ShownNode)) :
             /\ CellsOfRow(BodyRows(ShownNode)[r], BodyRowsOf(ShownElement)[r], "td")
             /\ FeatureMarked(BodyRows(ShownNode)[r], ShownElement)
             /\ HasClass(BodyRows(ShownNode)[r], "alternate-row")
                  <=> (HasField(ShownElement, "alternateRowColor")
                         /\ ShownElement.alternateRowColor
                         /\ (r - 1) % 2 = 1)

\* a grid with a header and two body rows is shown, the second body row
\* marked, column 1 marked in the header and in the first body row
C22_HeaderAndMarkedRow ==
    /\ GridShown
    /\ Len(HeadRows(ShownNode)) = 1
    /\ Len(BodyRows(ShownNode)) = 2
    /\ HasClass(BodyRows(ShownNode)[2], "alternate-row")
    /\ ~HasClass(BodyRows(ShownNode)[1], "alternate-row")
    /\ Len(HeadRows(ShownNode)[1].children) = 2
    /\ HasClass(HeadRows(ShownNode)[1].children[2], "feature-column")
    /\ Len(BodyRows(ShownNode)[1].children) = 2
    /\ HasClass(BodyRows(ShownNode)[1].children[2], "feature-column")

---------------------------------------------------------------------------
(* Properties of the controls of the embedded player *)

\* the number a string of digits writes
RECURSIVE ParseNum(_)
ParseNum(ds) ==
    IF ds = <<>> THEN 0
    ELSE 10 * ParseNum(SubSeq(ds, 1, Len(ds) - 1))
         + (CHOOSE d \in 0..9 : Digits(d) = <<ds[Len(ds)]>>)

AllDigits(ds) == \A i \in 1..Len(ds) : \E d \in 0..9 : Digits(d) = <<ds[i]>>

\* text is mm:ss for a number of whole seconds: two digits of seconds below
\* 60 after the colon, at least two digits of minutes before it
ShowsTime(text, secs) ==
    /\ Len(text) >= 5
    /\ text[Len(text) - 2] = ":"
    /\ AllDigits(SubSeq(text, 1, Len(text) - 3))
    /\ AllDigits(SubSeq(text, Len(text) - 1, Len(text)))
    /\ ParseNum(SubSeq(text, Len(text) - 1, Len(text))) < 60
    /\ 60 * ParseNum(SubSeq(text, 1, Len(text) - 3))
         + ParseNum(SubSeq(text, Len(text) - 1, Len(text))) = secs

\* the elapsed readout: the time text up to " / "
Elapsed(v) ==
    SubSeq(v.controls.timeEl, 1, IndexOf(v.controls.timeEl, <<" ", "/", " ">>) - 1)

\* the slider is at position / duration * 100, to the step of the slider
\* (0.1): progress is in tenths of a percent, the times in tenths of a second
SliderAt(v) ==
    /\ 2 * (v.controls.progress * v.duration - 1000 * v.player.time.v) <= v.duration
    /\ 2 * (1000 * v.player.time.v - v.controls.progress * v.duration) <= v.duration

\* the readout and the slider of closure w show a position that is finite
ShowsPosition(w) ==
    /\ ShowsTime(Elapsed(w), w.player.time.v \div 10)
    /\ w.duration > 0 => SliderAt(w)

\* C23: after player-ready, at every poll tick the elapsed readout shows the
\* current playback position formatted mm:ss and the seek slider shows
\* position/duration*100 (when duration > 0); when the position is unknown or
\* not finite the elapsed readout shows 00:00.
C23_TickShowsPosition ==
    \A k \in DOMAIN videos :
        (videos[k].ready /\ videos[k].timer = "running") =>
            IF videos[k].player.time.finite THEN ShowsPosition(Tick(videos[k]))
            ELSE Elapsed(Tick(videos[k])) = <<"0", "0", ":", "0", "0">>

\* what does hold of a tick: a finite position is shown, a position that is
\* not finite leaves the readout and the slider as they were
C23_FinitePositionShown ==
    \A k \in DOMAIN videos :
        (videos[k].ready /\ videos[k].timer = "running") =>
            IF videos[k].player.time.finite THEN ShowsPosition(Tick(videos[k]))
            ELSE Tick(videos[k]).controls = videos[k].controls

\* a tick has shown a minute and a second of the longer video at 49.2 percent
C23_MinuteShown ==
    \E k \in DOMAIN videos :
        /\ videos[k].polled
        /\ Elapsed(videos[k]) = <<"0", "1", ":", "0", "1">>
        /\ videos[k].controls.progress = 492

\* the event a step delivers to onStateChange of closure k, if any
StateChanged(k) == videos'[k].player.state # videos[k].player.state

\* C24: the play/pause button shows the pause glyph if the most recent event
\* among playing, paused and ended was playing, the play glyph if it was
\* paused or ended; other state changes leave the glyph unchanged. Step by
\* step: an event of playing sets the pause glyph, one of paused or ended the
\* play glyph, and nothing else changes the glyph.
C24_GlyphFollowsEvents ==
    [][\A k \in DOMAIN videos \cap DOMAIN videos' :
          videos'[k].controls.playBtn =
             IF StateChanged(k) /\ videos'[k].player.state = PLAYING THEN PauseGlyph
             ELSE IF StateChanged(k) /\ videos'[k].player.state \in {PAUSED, ENDED}
                  THEN PlayGlyph
             ELSE videos[k].controls.playBtn]_vars

\* the video played and now buffers: the pause glyph is still shown
C24_PauseGlyphWhileBuffering ==
    \E k \in DOMAIN videos :
        /\ Playable(k)
        /\ videos[k].player.state = BUFFERING
        /\ videos[k].controls.playBtn = PauseGlyph

\* C25: a click on the play/pause button pauses the player if and only if the
\* state of the player read at that click is playing, and otherwise asks it
\* to play, whatever the button shows and however the state came about.
C25_ClickReadsPlayerState ==
    [][ClickPlay =>
          \A k \in DOMAIN videos :
              Playable(k) =>
                  videos'[k].cmd = IF videos[k].player.state = PLAYING
                                   THEN <<"pauseVideo">> ELSE <<"playVideo">>]_vars

\* the player was asked to play while the button showed the pause glyph
C25_PlayAskedUnderPauseGlyph ==
    \E k \in DOMAIN videos :
        /\ Playable(k)
        /\ videos[k].cmd = <<"playVideo">>
        /\ videos[k].player.state = BUFFERING
        /\ videos[k].controls.playBtn = PauseGlyph

\* the glyph of the mute button shows muted exactly when the player is muted
MuteGlyphInStep ==
    \A k \in DOMAIN videos :
        /\ videos[k].controls.muteBtn \in {MutedGlyph, SoundGlyph}
        /\ videos[k].controls.muteBtn = MutedGlyph <=> videos[k].player.muted

\* C26: the embedded player starts muted with the muted glyph shown, each
\* click on the mute button flips the muted state of the player, and after
\* any sequence of such clicks the glyph shows muted exactly when the player
\* is muted.
C26_MuteGlyphFollowsPlayer ==
    /\ []MuteGlyphInStep
    /\ [][/\ \A k \in DOMAIN videos' :
              (k \notin DOMAIN videos \/ (videos[k].yt = 0 /\ videos'[k].yt > 0))
                  => (videos'[k].player.muted
                        /\ videos'[k].controls.muteBtn = MutedGlyph)
          /\ ClickMute =>
                \A k \in DOMAIN videos :
                    Playable(k) => videos'[k].player.muted = ~videos[k].player.muted]_vars

\* the sound is on, and the button shows it
C26_SoundOn ==
    \E k \in DOMAIN videos :
        /\ Playable(k)
        /\ ~videos[k].player.muted
        /\ videos[k].controls.muteBtn = SoundGlyph

\* C27: on manual input of the seek slider with value v in 0..100 and a
\* known duration d > 0 the player is asked to seek to (v/100)*d, which lies
\* in [0, d]; while the duration is unknown (0, as it is before player-ready)
\* the input requests no seek. The target is in ten-thousandths of a second,
\* the duration in tenths, the value in tenths of a percent.
C27_SeekTarget ==
    /\ [](\A k \in DOMAIN videos : ~videos[k].ready => videos[k].duration = 0)
    /\ [][SeekInput =>
            \A k \in DOMAIN videos :
                Playable(k) =>
                    IF videos[k].duration > 0
                    THEN /\ videos'[k].controls.progress \in 0..1000
                         /\ videos'[k].cmd[1] = "seekTo"
                         /\ 1000 * videos'[k].cmd[2]
                              = videos'[k].controls.progress * (1000 * videos[k].duration)
                         /\ videos'[k].cmd[2] >= 0
                         /\ videos'[k].cmd[2] <= 1000 * videos[k].duration
                    ELSE videos'[k].cmd = videos[k].cmd]_vars

\* a third of the longer video was asked for
C27_SeekToAThird ==
    \E k \in DOMAIN videos :
        /\ videos[k].duration = 1250
        /\ videos[k].controls.progress = 333
        /\ videos[k].cmd = <<"seekTo", 333 * 1250>>

---------------------------------------------------------------------------
(* Properties of the header of the slide *)

\* the slide declares audio: the field is there and is not the empty string
DeclaresAudio(slide) == HasField(slide, "audio") /\ slide.audio # ""

\* C28: after every renderSlide the title and the subtitle shown are those of
\* the slide rendered (empty when absent), and the audio player is visible
\* with its source the audio file of the slide under the audio asset root
\* exactly when the slide declares audio; otherwise it is hidden with an
\* empty source, so that the audio of an earlier slide never persists.
C28_HeaderOfRenderedSlide ==
    renderCount > 0 =>
        /\ titleEl = IF HasField(course[slideAtual], "title")
                     THEN course[slideAtual].title ELSE ""
        /\ subtitleEl = IF HasField(course[slideAtual], "subtitle")
                        THEN course[slideAtual].subtitle ELSE ""
        /\ audioPlayer.display = "block" <=> DeclaresAudio(course[slideAtual])
        /\ audioPlayer.display \in {"block", "none"}
        /\ audioPlayer.src = IF DeclaresAudio(course[slideAtual])
                             THEN <<"assets/audio/", course[slideAtual].audio>>
                             ELSE <<>>

\* a slide of no title and no audio is shown by the second render, and the
\* closure of an embedded video of the first render is still alive: the slide
\* before was the one with audio
C28_SilentSlideAfterAudio ==
    /\ renderCount = 2
    /\ ~DeclaresAudio(course[slideAtual])
    /\ ~HasField(course[slideAtual], "title")
    /\ audioPlayer.display = "none"
    /\ \E k \in DOMAIN videos : k[1] = 1 /\ videos[k].isYT

---------------------------------------------------------------------------
(* The anchor of a trigger after it was replaced *)

\* the step runs applyPosition of trigger k: its frame callback, the callback
\* of its ResizeObserver, or its listener of the resize of the window
Repositions(k) ==
    \/ Frame /\ triggers[k].raf
    \/ DeliverResize /\ triggers[k].notified
    \/ WindowResize /\ triggers[k].onResize

\* the position that is relative to whatever node stands in the place of the
\* anchor of k after the step
PositionByPlace(k) ==
    applyPosition(triggers[k].el,
                  AnchorInByKey(container', triggers[k].anchor, triggers[k].anchorCls),
                  layout')

\* C29: while a trigger built with an anchor stays mounted, every reposition
\* is computed relative to the node that stands in the anchor's place in the
\* container, also after the anchor (a video placeholder) was replaced by
\* its player; the trigger never switches to container-relative coordinates
C29_RepositionsFollowAnchorPlace ==
    [][\A k \in DOMAIN triggers :
          (triggers[k].anchor # NoKey /\ StaysMounted(k) /\ Repositions(k)) =>
              buttonStyle'[k] = PositionByPlace(k)]_vars

\* what does hold: the reposition is relative to the anchor as long as the
\* node the trigger closed over is itself in the document, and relative to
\* the container once that node was replaced
C29_RepositionsFollowAnchorNode ==
    [][\A k \in DOMAIN triggers :
          (triggers[k].anchor # NoKey /\ StaysMounted(k) /\ Repositions(k)) =>
              buttonStyle'[k] = PositionAfter(k)]_vars

\* a mounted trigger whose anchor placeholder was replaced by the player,
\* positioned at the origin of the container while the node in the place of
\* the anchor is one to the right of it
C29_AnchorReplaced ==
    \E k \in DOMAIN triggers :
        /\ isConnected(Doc, k)
        /\ triggers[k].anchorCls = "video-container-lazy"
        /\ ShellIn(container, triggers[k].anchor)
        /\ ~triggers[k].raf /\ ~triggers[k].notified
        /\ layout.aLeft > layout.contLeft
        /\ layout.clientWidth > layout.offsetWidth
        /\ buttonStyle[k].left = 0

---------------------------------------------------------------------------
(* The observers of a trigger that is in the document *)

\* the trigger buttons in the slide container and in the modal
MountedButtons == Triggers(container) \cup Triggers(modal.content)

\* C30: the observers and the window resize listener of an info-box trigger
\* are never released while the trigger is mounted in the document: the
\* mutation observer, registered before the trigger is attached to its
\* parent, does not tear it down before or at the moment it is mounted
C30_MountedKeepsObservers ==
    \A n \in MountedButtons :
        /\ n.key \in DOMAIN triggers
        /\ triggers[n.key].ro
        /\ triggers[n.key].onResize
        /\ triggers[n.key].mo > 0

\* after a second render and a resize of the window that its frame callback
\* and its observers have answered, the trigger of that render is mounted
\* with its observers while the one of the first render was released
C30_MountedAfterRerender ==
    /\ renderCount = 2
    /\ \E n \in MountedButtons :
         /\ n.key[1] = 2
         /\ triggers[n.key].mo > 0
         /\ ~triggers[n.key].raf
         /\ ~triggers[n.key].notified
         /\ buttonStyle[n.key].set
    /\ layout # LayoutAtRest
    /\ \A k \in DOMAIN triggers : k[1] = 2

---------------------------------------------------------------------------
(* A click on the placeholder of an embedded video, the API not yet loaded *)

\* the keys of the embedded videos of the slide, in each render
EmbeddedKeys == { <<r, path>> : r \in 1..MaxRenders, path \in { <<1>>, <<2>> } }

\* the click listener of the placeholder built for k has run, and its URL is
\* one of the provider with an identifier
ClickedEmbedded(k) ==
    /\ k \in DOMAIN videos
    /\ videos[k].handlerRuns > 0
    /\ videos[k].isYT /\ Truthy(videos[k].videoID)

\* the handler of k awaits the promise of ensureYouTubeAPI
ApiPending(k) == \E i \in 1..Len(waiters) : waiters[i].key = k

\* the shell built for k is in the container with its control bar, and its
\* player was constructed
PlayerWithControls(k) ==
    /\ k \in DOMAIN videos
    /\ videos[k].yt > 0
    /\ \E n \in NodesOf(container) :
         /\ n.key = k /\ IsShell(n)
         /\ \E i \in 1..Len(n.children) : HasClass(n.children[i], "yt-controls")

\* the slide was rendered again after the render that built k
RenderedAgain(k) == renderCount > k[1]

\* while the handler of k awaits, k has no player, no timer and no observer,
\* and its placeholder is where the render put it unless a later render has
\* emptied the container
PendingKeepsPlaceholder ==
    \A k \in DOMAIN videos :
        ApiPending(k) =>
            /\ RenderedAgain(k) \/ PlaceholderIn(container, k)
            /\ ~ShellIn(container, k)
            /\ videos[k].yt = 0 /\ videos[k].html5 = 0 /\ videos[k].iframes = 0
            /\ videos[k].timer = "null"
            /\ ~videos[k].mo

\* the steps that define YT.Player are the steps of ApiReady, and no others
ApiArrivesIsApiReady == [][ApiReady <=> <<ApiArrives>>_ytApi]_vars

\* C31: after a click on an embedded-provider placeholder, either the
\* placeholder is eventually replaced by a player with its control bar, or
\* the slide is re-rendered first; while the API load is pending, and if it
\* never completes, the placeholder stays mounted and no player, timer or
\* observer exists for it
C31_ClickLeadsToPlayer ==
    /\ ApiArrivesIsApiReady
    /\ []PendingKeepsPlaceholder
    /\ \A k \in EmbeddedKeys :
         ClickedEmbedded(k) ~> (PlayerWithControls(k) \/ RenderedAgain(k))

\* the API was loaded once, after a click, and the video of the second
\* render has its player and its control bar while the one beside it is
\* still a placeholder
C31_PlayerAfterApiLoad ==
    /\ ytApi.playerDefined /\ ytApi.scriptTags = 1
    /\ renderCount = 2
    /\ \E k \in EmbeddedKeys :
         /\ k[1] = 2
         /\ ClickedEmbedded(k)
         /\ PlayerWithControls(k)
         /\ ~videos[k].ready
    /\ \E k \in DOMAIN videos : k[1] = 2 /\ videos[k].isYT /\ PlaceholderIn(container, k)

=========================================================================
